---- MODULE Spec2Model ----
(***************************************************************************)
(* Model of the real-time collaboration relay of backend_exa:              *)
(*   - the Socket.IO collaboration server (handshake gate, presence roster,*)
(*     editor / cursor / chat relays),                                     *)
(*   - the page socket handlers and the REST page deletion, over the Page  *)
(*     table,                                                              *)
(*   - the REST routes over projects, permissions, locks, versions and     *)
(*     link access.                                                        *)
(* Two source files implement setupCollabSocket; the variable `build' says *)
(* which of them is deployed.                                              *)
(***************************************************************************)
EXTENDS Naturals, Integers, Sequences, FiniteSets, TLC

(***************************************************************************)
(* Bounds of the model.                                                    *)
(***************************************************************************)
MaxSockets == 2
NumUsers == 2
NumProjects == 2
NumPageIds == 2

SocketIds == 1..MaxSockets
\* ids are strings, as in the program: "u1", "p1", "pg1", ...
UserId(i) == "u" \o ToString(i)
ProjectId(i) == "p" \o ToString(i)
Users == {UserId(i) : i \in 1..NumUsers}
ProjectIds == {ProjectId(i) : i \in 1..NumProjects}
PageIds == {"pg" \o ToString(i) : i \in 1..NumPageIds}

(***************************************************************************)
(* Values.                                                                 *)
(***************************************************************************)
Absent == "undefined"            \* a missing (undefined / empty) field
UnknownProject == "no-such-project"
BadToken == "forged.u1"          \* a token jwt.verify refuses
Builds == {"collab+pages", "collab+chat"}

\* UserPayload carried by a token signed for user u
UserPayload(u) == [id |-> u, name |-> "name of " \o u]
GoodToken(u) == "jwt." \o u
ValidTokens == {GoodToken(u) : u \in Users}
Tokens == {Absent, BadToken} \cup ValidTokens
HandshakeProjectIds == ProjectIds \cup {Absent, UnknownProject}
LinkTokens == {Absent, "lt-A", "lt-B"}
LinkAccessLevels == {"none", "read", "write"}

\* socket.io rooms: user-join joins the room named projectId, the page
\* handlers use the room named `project:${projectId}`
CollabRoom(p) == p
PageRoom(p) == "project:" \o p
RoomNames == {CollabRoom(p) : p \in ProjectIds}
               \cup {PageRoom(p) : p \in ProjectIds \cup {UnknownProject}}

VARIABLES
  build,        \* which setupCollabSocket source is deployed
  projects,     \* Project rows: id -> [ownerId, name, linkAccess, linkToken,
                \*   lockedById, lockedAt]
  permissions,  \* ProjectPermission rows: set of [projectId, userId, permission]
  pages,        \* Page rows in creation order
  sockets,      \* socket id -> [state, user, projectId, error, currentProjectId]
  activeUsers,  \* Map projectId -> roster (Map in insertion order)
  rooms,        \* room name -> set of sockets in it
  clientPages,  \* Map `${socket.id}:${projectId}` -> Set of page client ids
  membership,   \* history: per socket "never" | "joined" (emitted user-join) |
                \*   "left" (emitted user-leave or disconnected since)
  present,      \* history: per project, the users whose latest user-join,
                \*   user-leave or disconnect was a user-join
  pageJoins,    \* history: per socket, the projects it emitted join:project for
  last,         \* the event the last step handled
  out,          \* the emissions of the last step: set of [to, ev, data]
  versions,     \* ProjectVersion rows in creation order
  clock,        \* the server's time (new Date())
  issued,       \* how many link tokens crypto.randomBytes has produced
  inflight      \* handlers suspended at an await: key -> what the handler holds

vars == <<build, projects, permissions, pages, sockets, activeUsers, rooms,
          clientPages, membership, present, pageJoins, last, out,
          versions, clock, issued, inflight>>

NoUser == [id |-> Absent, name |-> Absent]
IdleSocket == [state |-> "idle", user |-> NoUser, projectId |-> Absent,
               error |-> Absent, currentProjectId |-> Absent]
ClosedSocket == [IdleSocket EXCEPT !.state = "closed"]
NoEvent == [ev |-> "none", sock |-> 0, data |-> Absent]

Established(s) == sockets[s].state = "established"
joined == {s \in SocketIds : membership[s] = "joined"}

\* the messages a step sends: one record per receiving socket
Deliver(targets, ev, data) == {[to |-> t, ev |-> ev, data |-> data] : t \in targets}


(***************************************************************************)
(* Persistence gateway: the queries the relay makes.                       *)
(***************************************************************************)
\* prisma.project.findUnique({ where: { id } })
ProjectExists(projectId) == projectId \in DOMAIN projects

\* prisma.projectPermission.findFirst({ where: { projectId, userId } })
HasPermissionRow(projectId, userId) ==
  \E r \in permissions : r.projectId = projectId /\ r.userId = userId

(***************************************************************************)
(* Token service: jwt.verify returns the payload the token was signed for  *)
(* or throws.                                                              *)
(***************************************************************************)
\* mutant: the token is decoded (jwt.decode) instead of verified
TokenVerifies_Decode(token) == token # Absent
TokenVerifies(token) == token \in ValidTokens
\* the payload a token carries, whether or not its signature verifies
TokenUser(token) ==
  IF token \in ValidTokens
  THEN UserPayload(CHOOSE u \in Users : token = GoodToken(u))
  ELSE UserPayload(UserId(1))

(***************************************************************************)
(* Connection gatekeeper: the io.use middleware.  The result is the error  *)
(* handed to next(), or "ok".  The link token presented by the client is   *)
(* part of the handshake; the middleware does not read it.                 *)
(***************************************************************************)
ErrNoToken == "No se proporciono token de autenticacion"
ErrNoProjectId == "No se proporciono ID de proyecto"
ErrAuth == "Error de autenticacion"
ErrNotFound == "Proyecto no encontrado"
ErrForbidden == "Sin permisos para acceder a este proyecto"
HandshakeErrors == {ErrNoToken, ErrNoProjectId, ErrAuth, ErrNotFound, ErrForbidden}

Handshakes == [token : Tokens, projectId : HandshakeProjectIds, linkToken : LinkTokens]

isOwner(project, user) == project.ownerId = user.id
isCollaborator(projectId, user) == HasPermissionRow(projectId, user.id)
\* mutant: link access never opens a project
hasLinkAccess_Never(project, h) == FALSE
hasLinkAccess(project, h) == project.linkAccess # "none"

\* mutant: the project is looked up before the token is verified
AuthMiddleware_LookupFirst(h) ==
  IF h.token = Absent THEN ErrNoToken
  ELSE IF h.projectId = Absent THEN ErrNoProjectId
  ELSE IF ~ProjectExists(h.projectId) THEN ErrNotFound
  ELSE IF ~TokenVerifies(h.token) THEN ErrAuth
  ELSE IF /\ ~isOwner(projects[h.projectId], TokenUser(h.token))
          /\ ~isCollaborator(h.projectId, TokenUser(h.token))
          /\ ~hasLinkAccess(projects[h.projectId], h)
       THEN ErrForbidden
  ELSE "ok"

\* the calls the middleware makes for a handshake, in order
GateCalls(h) ==
  IF h.token = Absent \/ h.projectId = Absent THEN << >>
  ELSE IF ~TokenVerifies(h.token) THEN <<"jwt.verify">>
  ELSE IF ~ProjectExists(h.projectId) THEN <<"jwt.verify", "project.findUnique">>
  ELSE <<"jwt.verify", "project.findUnique", "projectPermission.findFirst">>

AuthMiddleware(h) ==
  IF h.token = Absent THEN ErrNoToken
  ELSE IF h.projectId = Absent THEN ErrNoProjectId
  ELSE IF ~TokenVerifies(h.token) THEN ErrAuth
  ELSE IF ~ProjectExists(h.projectId) THEN ErrNotFound
  ELSE IF /\ ~isOwner(projects[h.projectId], TokenUser(h.token))
          /\ ~isCollaborator(h.projectId, TokenUser(h.token))
          /\ ~hasLinkAccess(projects[h.projectId], h)
       THEN ErrForbidden
  ELSE "ok"

\* socket ids are handed out in order: socket s connects once every lower id has
NextSocket(s) ==
  /\ sockets[s].state = "idle"
  /\ \A t \in SocketIds : t < s => sockets[t].state # "idle"

\* A client opens a connection.  On success socket.user and socket.projectId
\* are attached and the connection handlers are registered.
Connect(s, h) ==
  /\ NextSocket(s)
  /\ sockets' = [sockets EXCEPT ![s] =
       IF AuthMiddleware(h) = "ok"
       THEN [IdleSocket EXCEPT !.state = "established",
                               !.user = TokenUser(h.token),
                               !.projectId = h.projectId]
       ELSE [IdleSocket EXCEPT !.state = "rejected",
                               !.error = AuthMiddleware(h)]]
  /\ last' = [ev |-> "connect", sock |-> s, data |-> h]
  /\ out' = {}
  /\ UNCHANGED <<build, inflight, projects, permissions, versions, clock, issued, pages, activeUsers, rooms,
                 clientPages, membership, present, pageJoins>>

(***************************************************************************)
(* Presence tracker: the process-wide activeUsers Map.  A roster is a Map  *)
(* userId -> {id, name}; it is kept as the sequence of its values in       *)
(* insertion order, which is what Array.from(map.values()) yields.         *)
(***************************************************************************)
HasRoster(projectId) == projectId \in DOMAIN activeUsers
Roster(projectId) == IF HasRoster(projectId) THEN activeUsers[projectId] ELSE << >>
RosterIds(roster) == {roster[i].id : i \in 1..Len(roster)}

\* mutant: the roster is an array that the join pushes to
MapSet_Push(roster, entry) == Append(roster, entry)
\* Map.prototype.set: overwrite in place, or append a new key
MapSet(roster, entry) ==
  IF entry.id \in RosterIds(roster)
  THEN [i \in 1..Len(roster) |-> IF roster[i].id = entry.id THEN entry ELSE roster[i]]
  ELSE Append(roster, entry)

\* Map.prototype.delete
MapDelete(roster, id) == SelectSeq(roster, LAMBDA e : e.id # id)

\* activeUsers.set(projectId, roster) / activeUsers.delete(projectId)
SetRoster(projectId, roster) ==
  [q \in DOMAIN activeUsers \cup {projectId} |->
     IF q = projectId THEN roster ELSE activeUsers[q]]
DeleteRoster(projectId) ==
  [q \in DOMAIN activeUsers \ {projectId} |-> activeUsers[q]]

\* socket.join(room) / socket.leave(room)
JoinRoom(rms, s, room) == [rms EXCEPT ![room] = @ \cup {s}]
LeaveRoom(rms, s, room) == [rms EXCEPT ![room] = @ \ {s}]
\* socket.io takes a closing socket out of every room before 'disconnect' fires
LeaveAll(rms, s) == [r \in DOMAIN rms |-> rms[r] \ {s}]

\* io.to(room): every socket of the room; socket.to(room): all but the sender
IoTo(rms, room) == rms[room]
\* mutant: the broadcast uses io.to(room), which includes the sender
SocketTo_All(rms, s, room) == rms[room]
SocketTo(rms, s, room) == rms[room] \ {s}

\* the closure variables of a connection: user and projectId
Who(s) == [userId |-> sockets[s].user.id, projectId |-> sockets[s].projectId]

\* socket.on('user-join')
UserJoin(s) ==
  /\ Established(s)
  /\ LET user == sockets[s].user
         projectId == sockets[s].projectId
         roster == MapSet(Roster(projectId), [id |-> user.id, name |-> user.name])
         rms == JoinRoom(rooms, s, CollabRoom(projectId))
     IN /\ activeUsers' = SetRoster(projectId, roster)
        /\ rooms' = rms
        /\ out' = Deliver(IoTo(rms, CollabRoom(projectId)), "presence-update", roster)
  /\ membership' = [membership EXCEPT ![s] = "joined"]
  /\ present' = [present EXCEPT ![sockets[s].projectId] = @ \cup {sockets[s].user.id}]
  /\ last' = [ev |-> "user-join", sock |-> s, data |-> Who(s)]
  /\ UNCHANGED <<build, inflight, projects, permissions, versions, clock, issued, pages, sockets, clientPages, pageJoins>>

\* mutant: the emptied roster Map is left in activeUsers
LeaveRosters_KeepEmpty(s) ==
  IF sockets[s].projectId \in DOMAIN activeUsers
  THEN [q \in DOMAIN activeUsers |->
          IF q = sockets[s].projectId
          THEN SelectSeq(activeUsers[q], LAMBDA e : e.id # sockets[s].user.id)
          ELSE activeUsers[q]]
  ELSE activeUsers

\* handleUserLeave(socket): the new activeUsers Map
LeaveRosters(s) ==
  LET user == sockets[s].user
      projectId == sockets[s].projectId
  IN IF HasRoster(projectId)
     THEN IF Len(MapDelete(activeUsers[projectId], user.id)) = 0
          THEN DeleteRoster(projectId)
          ELSE SetRoster(projectId, MapDelete(activeUsers[projectId], user.id))
     ELSE activeUsers

\* handleUserLeave(socket): what it emits, given the rooms at the time it runs
LeaveEmits(s, rms) ==
  LET user == sockets[s].user
      projectId == sockets[s].projectId
  IN IF HasRoster(projectId) /\ Len(MapDelete(activeUsers[projectId], user.id)) # 0
     THEN Deliver(IoTo(rms, CollabRoom(projectId)), "presence-update",
                  MapDelete(activeUsers[projectId], user.id))
     ELSE {}

\* handleUserLeave(socket): the rooms it leaves behind; only the chat build
\* ends with socket.leave(projectId)
LeaveRooms(s, rms) ==
  IF build = "collab+chat"
  THEN LeaveRoom(rms, s, CollabRoom(sockets[s].projectId))
  ELSE rms

\* socket.on('user-leave')
UserLeave(s) ==
  /\ Established(s)
  /\ activeUsers' = LeaveRosters(s)
  /\ out' = LeaveEmits(s, rooms)
  /\ rooms' = LeaveRooms(s, rooms)
  /\ membership' = [membership EXCEPT ![s] = "left"]
  /\ present' = [present EXCEPT ![sockets[s].projectId] = @ \ {sockets[s].user.id}]
  /\ last' = [ev |-> "user-leave", sock |-> s, data |-> Who(s)]
  /\ UNCHANGED <<build, inflight, projects, permissions, versions, clock, issued, pages, sockets, clientPages, pageJoins>>

\* the page handlers' disconnect listener: clientPages.delete(clientKey) for
\* the project of the socket's last join:project
PagesDisconnect(s) ==
  IF build = "collab+pages" /\ sockets[s].currentProjectId # Absent
  THEN [k \in DOMAIN clientPages \ {<<s, sockets[s].currentProjectId>>} |-> clientPages[k]]
  ELSE clientPages

\* The connection closes: the socket leaves its rooms, then the disconnect
\* listeners run.
Disconnect(s) ==
  /\ Established(s)
  /\ activeUsers' = LeaveRosters(s)
  /\ out' = LeaveEmits(s, LeaveAll(rooms, s))
  /\ rooms' = LeaveAll(rooms, s)
  /\ clientPages' = PagesDisconnect(s)
  /\ membership' = [membership EXCEPT ![s] = "left"]
  /\ present' = [present EXCEPT ![sockets[s].projectId] = @ \ {sockets[s].user.id}]
  /\ sockets' = [sockets EXCEPT ![s] = ClosedSocket]
  /\ pageJoins' = [pageJoins EXCEPT ![s] = {}]
  /\ last' = [ev |-> "disconnect", sock |-> s, data |-> Who(s)]
  /\ UNCHANGED <<build, inflight, projects, permissions, versions, clock, issued, pages>>

(***************************************************************************)
(* Collaboration event router: the relays that persist nothing.  The       *)
(* timestamp the handlers add (Date.now()) is left out of the envelope.    *)
(***************************************************************************)
\* mutant: the payload is relayed without the sender's identity
Envelope_Verbatim(s, field, data) ==
  [userId |-> Absent, userName |-> Absent, field |-> field, body |-> data]
Envelope(s, field, data) ==
  [userId |-> sockets[s].user.id, userName |-> sockets[s].user.name,
   field |-> field, body |-> data]

Relay(s, ev, targets, data) ==
  /\ out' = Deliver(targets, ev, data)
  /\ last' = [ev |-> ev, sock |-> s, data |-> data]
  /\ UNCHANGED <<build, inflight, projects, permissions, versions, clock, issued, pages, sockets, activeUsers,
                 rooms, clientPages, membership, present, pageJoins>>

\* socket.on('editor:full-update'), in both builds
EditorFullUpdate(s, fullUpdateData) ==
  /\ Established(s)
  /\ Relay(s, "editor:full-update",
           SocketTo(rooms, s, CollabRoom(sockets[s].projectId)),
           Envelope(s, "data", fullUpdateData))

\* socket.on('editor:change')
EditorChange(s, changeData) ==
  /\ Established(s)
  /\ build = "collab+pages"
  /\ Relay(s, "editor:change",
           SocketTo(rooms, s, CollabRoom(sockets[s].projectId)),
           Envelope(s, "change", changeData))

\* socket.on('cursor:move')
CursorMove(s, position) ==
  /\ Established(s)
  /\ build = "collab+pages"
  /\ Relay(s, "cursor:move",
           SocketTo(rooms, s, CollabRoom(sockets[s].projectId)),
           Envelope(s, "position", position))

\* mutant: the chat message is relayed with socket.to, without the echo
ChatMessage_NoEcho(s, data) ==
  /\ Established(s)
  /\ build = "collab+chat"
  /\ Relay(s, "chat:message",
           rooms[CollabRoom(sockets[s].projectId)] \ {s},
           Envelope(s, "message", data.message))

\* socket.on('chat:message'): data is an object with a message
ChatMessage(s, data) ==
  /\ Established(s)
  /\ build = "collab+chat"
  /\ Relay(s, "chat:message",
           IoTo(rooms, CollabRoom(sockets[s].projectId)),
           Envelope(s, "message", data.message))

(***************************************************************************)
(* Page table.  A row is [clientId, projectId, name, html, isDefault,      *)
(* isDeleted]; its id is its position in `pages', which is also the order  *)
(* of createdAt.  The columns css and components are written and read by   *)
(* the same statements as html and are not kept apart from it.  The store  *)
(* enforces the unique index on (projectId, clientId) and the foreign key  *)
(* to Project.                                                             *)
(***************************************************************************)
PageRowIds(pgs) == 1..Len(pgs)

\* prisma.page.findFirst/findMany({ where: { projectId, isDeleted: false } })
LivePages(pgs, projectId) ==
  {i \in PageRowIds(pgs) : pgs[i].projectId = projectId /\ ~pgs[i].isDeleted}

\* prisma.page.count({ where: { projectId, isDeleted: false } })
PageCount(pgs, projectId) == Cardinality(LivePages(pgs, projectId))

\* where: { projectId, clientId }: at most one row, by the unique index
RowsOfClientId(pgs, projectId, clientId) ==
  {i \in PageRowIds(pgs) : pgs[i].projectId = projectId /\ pgs[i].clientId = clientId}

DefaultPages(pgs, projectId) == {i \in LivePages(pgs, projectId) : pgs[i].isDefault}

\* prisma.page.create: refused when the project does not exist or the
\* (projectId, clientId) pair is taken, by a live or a soft-deleted row
CreateRefused(pgs, projectId, clientId) ==
  \/ ~ProjectExists(projectId)
  \/ RowsOfClientId(pgs, projectId, clientId) # {}

NewPage(data) ==
  [clientId |-> data.pageId, projectId |-> data.projectId, name |-> data.pageName,
   html |-> data.html, isDefault |-> data.isDefault, isDeleted |-> FALSE]

\* prisma.page.updateMany clearing isDefault on the live default pages of the
\* project other than row `keep'
ClearOtherDefaults(pgs, projectId, keep) ==
  [i \in PageRowIds(pgs) |->
     IF i # keep /\ pgs[i].projectId = projectId /\ pgs[i].isDefault /\ ~pgs[i].isDeleted
     THEN [pgs[i] EXCEPT !.isDefault = FALSE]
     ELSE pgs[i]]

\* the rows after the soft delete of row i
SoftDelete(pgs, i) == [pgs EXCEPT ![i].isDeleted = TRUE]

\* the candidates of the findFirst that picks the next default page after row
\* i was soft-deleted: any live page of the project but i (no orderBy)
NextDefaultCandidates(pgs, i) == LivePages(SoftDelete(pgs, i), pgs[i].projectId) \ {i}

\* last-page protection, as coded: only a page flagged default is counted
RemovalRefused(pgs, i) == pgs[i].isDefault /\ PageCount(pgs, pgs[i].projectId) <= 1

\* The rows after removing row i, with `pick' the row findFirst returned
\* (0 when it returned none).
RemoveRow(pgs, i, pick) ==
  IF pgs[i].isDefault /\ pick # 0
  THEN [SoftDelete(pgs, i) EXCEPT ![pick].isDefault = TRUE]
  ELSE SoftDelete(pgs, i)

\* what findFirst may return for the next default
NextDefaultPicks(pgs, i) ==
  IF pgs[i].isDefault /\ NextDefaultCandidates(pgs, i) # {}
  THEN NextDefaultCandidates(pgs, i)
  ELSE {0}

(***************************************************************************)
(* Page socket handlers (registerPageSocketHandlers).  They take the       *)
(* project from the payload and use the room `project:${projectId}`.       *)
(***************************************************************************)
PagesBuild == build = "collab+pages"
ErrorTo(s, message) == {[to |-> s, ev |-> "error", data |-> [message |-> message]]}

ClientKey(s, projectId) == <<s, projectId>>
ClientSet(key) == IF key \in DOMAIN clientPages THEN clientPages[key] ELSE {}
\* clientPages.set(key, set)
ClientPagesSet(key, set) ==
  [k \in DOMAIN clientPages \cup {key} |-> IF k = key THEN set ELSE clientPages[k]]

PageStep(s, ev, data) ==
  /\ last' = [ev |-> ev, sock |-> s, data |-> data]
  /\ UNCHANGED <<build, inflight, projects, permissions, versions, clock, issued, activeUsers, membership, present>>

\* mutant: join:project joins the room named projectId, without the prefix
JoinProject_PlainRoom(s, data) ==
  /\ Established(s) /\ PagesBuild
  /\ PageStep(s, "join:project", data)
  /\ pages' = pages
  /\ IF data.projectId = Absent
     THEN /\ out' = ErrorTo(s, "Se requiere projectId")
          /\ UNCHANGED <<rooms, sockets, clientPages, pageJoins>>
     ELSE /\ rooms' = JoinRoom(rooms, s, CollabRoom(data.projectId))
          /\ pageJoins' = [pageJoins EXCEPT ![s] = @ \cup {data.projectId}]
          /\ sockets' = [sockets EXCEPT ![s].currentProjectId = data.projectId]
          /\ clientPages' =
               IF ClientKey(s, data.projectId) \in DOMAIN clientPages
               THEN clientPages
               ELSE ClientPagesSet(ClientKey(s, data.projectId), {})
          /\ out' = {[to |-> s, ev |-> "join:project",
                      data |-> [projectId |-> data.projectId]]}

\* socket.on('join:project')
JoinProject(s, data) ==
  /\ Established(s) /\ PagesBuild
  /\ PageStep(s, "join:project", data)
  /\ pages' = pages
  /\ IF data.projectId = Absent
     THEN /\ out' = ErrorTo(s, "Se requiere projectId")
          /\ UNCHANGED <<rooms, sockets, clientPages, pageJoins>>
     ELSE /\ rooms' = JoinRoom(rooms, s, PageRoom(data.projectId))
          /\ pageJoins' = [pageJoins EXCEPT ![s] = @ \cup {data.projectId}]
          /\ sockets' = [sockets EXCEPT ![s].currentProjectId = data.projectId]
          /\ clientPages' =
               IF ClientKey(s, data.projectId) \in DOMAIN clientPages
               THEN clientPages
               ELSE ClientPagesSet(ClientKey(s, data.projectId), {})
          /\ out' = {[to |-> s, ev |-> "join:project",
                      data |-> [projectId |-> data.projectId]]}

\* socket.on('page:add')
PageAdd(s, data) ==
  /\ Established(s) /\ PagesBuild
  /\ PageStep(s, "page:add", data)
  /\ UNCHANGED <<rooms, sockets, pageJoins>>
  /\ IF data.projectId = Absent \/ data.pageId = Absent \/ data.pageName = Absent
     THEN /\ out' = ErrorTo(s, "Datos incompletos para agregar pagina")
          /\ UNCHANGED <<pages, clientPages>>
     ELSE LET existingPage ==
                RowsOfClientId(pages, data.projectId, data.pageId)
                  \cap LivePages(pages, data.projectId)
          IN IF existingPage = {} /\ CreateRefused(pages, data.projectId, data.pageId)
             THEN /\ out' = ErrorTo(s, "Error al agregar pagina")
                  /\ UNCHANGED <<pages, clientPages>>
             ELSE /\ pages' = IF existingPage = {}
                              THEN Append(pages, NewPage(data))
                              ELSE pages
                  /\ clientPages' =
                       ClientPagesSet(ClientKey(s, data.projectId),
                         ClientSet(ClientKey(s, data.projectId)) \cup {data.pageId})
                  /\ out' = Deliver(SocketTo(rooms, s, PageRoom(data.projectId)),
                                    "page:add", data)

\* socket.on('page:remove')
PageRemove(s, data) ==
  /\ Established(s) /\ PagesBuild
  /\ PageStep(s, "page:remove", data)
  /\ UNCHANGED <<rooms, sockets, pageJoins>>
  /\ IF data.projectId = Absent \/ data.pageId = Absent
     THEN /\ out' = ErrorTo(s, "Datos incompletos para eliminar pagina")
          /\ UNCHANGED <<pages, clientPages>>
     ELSE LET page == RowsOfClientId(pages, data.projectId, data.pageId)
          IN IF \E i \in page : RemovalRefused(pages, i)
             THEN /\ out' = ErrorTo(s, "No se puede eliminar la unica pagina del proyecto")
                  /\ UNCHANGED <<pages, clientPages>>
             ELSE /\ IF page = {}
                     THEN pages' = pages
                     ELSE \E i \in page : \E pick \in NextDefaultPicks(pages, i) :
                             pages' = RemoveRow(pages, i, pick)
                  /\ clientPages' =
                       IF ClientKey(s, data.projectId) \in DOMAIN clientPages
                       THEN ClientPagesSet(ClientKey(s, data.projectId),
                              ClientSet(ClientKey(s, data.projectId)) \ {data.pageId})
                       ELSE clientPages
                  /\ out' = Deliver(SocketTo(rooms, s, PageRoom(data.projectId)),
                                    "page:remove", data)

\* the row page:update writes: name when pageName is given, html when
\* pageData.html is defined, isDefault only when pageData.isDefault is true
UpdatedRow(row, data) ==
  [row EXCEPT !.name = IF data.pageName # Absent THEN data.pageName ELSE @,
              !.html = IF data.html # Absent THEN data.html ELSE @,
              !.isDefault = IF data.isDefault THEN TRUE ELSE @]

\* socket.on('page:update')
PageUpdate(s, data) ==
  /\ Established(s) /\ PagesBuild
  /\ PageStep(s, "page:update", data)
  /\ UNCHANGED <<rooms, sockets, clientPages, pageJoins>>
  /\ IF data.projectId = Absent \/ data.pageId = Absent
     THEN /\ out' = ErrorTo(s, "Datos incompletos para actualizar pagina")
          /\ pages' = pages
     ELSE LET page == RowsOfClientId(pages, data.projectId, data.pageId)
                        \cap LivePages(pages, data.projectId)
          IN /\ IF page = {}
                THEN pages' = pages
                ELSE \E i \in page :
                       pages' = [(IF data.isDefault
                                  THEN ClearOtherDefaults(pages, data.projectId, i)
                                  ELSE pages)
                                 EXCEPT ![i] = UpdatedRow(pages[i], data)]
             /\ out' = Deliver(SocketTo(rooms, s, PageRoom(data.projectId)),
                               "page:update", data)

\* socket.on('page:select'): relayed, nothing stored
PageSelect(s, data) ==
  /\ Established(s) /\ PagesBuild
  /\ PageStep(s, "page:select", data)
  /\ UNCHANGED <<rooms, sockets, clientPages, pages, pageJoins>>
  /\ out' = IF data.projectId = Absent
            THEN {}
            ELSE Deliver(SocketTo(rooms, s, PageRoom(data.projectId)), "page:select", data)

\* mutant: the query of the sync does not filter the deleted pages
SyncRows_WithDeleted(projectId) ==
  SelectSeq(pages, LAMBDA row : projectId = Absent \/ row.projectId = projectId)
\* the pages findMany returns for page:request-sync, in creation order; an
\* undefined projectId is no filter for the store
SyncRows(projectId) ==
  SelectSeq(pages, LAMBDA row : ~row.isDeleted
                                /\ (projectId = Absent \/ row.projectId = projectId))
SyncEntry(row) ==
  [id |-> row.clientId, name |-> row.name, html |-> row.html, isDefault |-> row.isDefault]

\* socket.on('page:request-sync')
PageRequestSync(s, data) ==
  /\ Established(s) /\ PagesBuild
  /\ PageStep(s, "page:request-sync", data)
  /\ UNCHANGED <<rooms, sockets, pages, pageJoins>>
  /\ LET rows == SyncRows(data.projectId)
     IN /\ clientPages' =
             ClientPagesSet(ClientKey(s, data.projectId),
               ClientSet(ClientKey(s, data.projectId))
                 \cup {rows[i].clientId : i \in 1..Len(rows)})
        /\ out' = {[to |-> s, ev |-> "page:full-sync",
                    data |-> [pages |-> [i \in 1..Len(rows) |-> SyncEntry(rows[i])]]]}

(***************************************************************************)
(* REST: DELETE /api/pages/:id, behind the bearer-token middleware.  The   *)
(* response goes to the HTTP client, receiver 0.                           *)
(***************************************************************************)
HttpResponse(status) == {[to |-> 0, ev |-> "http", data |-> [status |-> status]]}

RestDeletePage(id) ==
  /\ last' = [ev |-> "DELETE /pages/:id", sock |-> 0, data |-> [id |-> id]]
  /\ UNCHANGED <<build, inflight, projects, permissions, versions, clock, issued, sockets, activeUsers, rooms,
                 clientPages, membership, present, pageJoins>>
  /\ IF id \notin PageRowIds(pages)
     THEN out' = HttpResponse(404) /\ pages' = pages
     ELSE IF RemovalRefused(pages, id)
     THEN out' = HttpResponse(400) /\ pages' = pages
     ELSE /\ \E pick \in NextDefaultPicks(pages, id) : pages' = RemoveRow(pages, id, pick)
          /\ out' = HttpResponse(200)

(***************************************************************************)
(* Initial states.  The process starts with no connection, an empty roster *)
(* Map and empty rooms; the store holds projects created over REST.        *)
(***************************************************************************)
ProjectRow(owner, access, token) ==
  [ownerId |-> owner, name |-> "Proyecto", linkAccess |-> access,
   linkToken |-> token, lockedById |-> Absent, lockedAt |-> Absent]

InitProcess ==
  /\ build \in Builds
  /\ sockets = [s \in SocketIds |-> IdleSocket]
  /\ activeUsers = [q \in {} |-> << >>]
  /\ rooms = [r \in RoomNames |-> {}]
  /\ clientPages = [k \in {} |-> {}]
  /\ membership = [s \in SocketIds |-> "never"]
  /\ present = [q \in ProjectIds |-> {}]
  /\ pageJoins = [s \in SocketIds |-> {}]
  /\ last = NoEvent
  /\ out = {}
  /\ versions = << >>
  /\ clock = 1
  /\ issued = 0
  /\ inflight = [k \in {} |-> Absent]

\* Relay: project 1 is private to its owner (user 1) and one collaborator
\* (the last user); every other project is open to link guests.
InitRelay ==
  /\ InitProcess
  /\ projects = [q \in ProjectIds |->
       IF q = ProjectId(1) THEN ProjectRow(UserId(1), "none", Absent)
                           ELSE ProjectRow(UserId(1), "read", "lt-A")]
  /\ permissions = {[projectId |-> ProjectId(1), userId |-> UserId(NumUsers),
                     permission |-> "read"]}
  /\ pages = << >>

\* the relay's inputs: the payloads are opaque to the handlers
RelayHandshakes == {h \in Handshakes : h.linkToken = Absent}
EditorPayloads == {"components+styles"}
ChatPayloads == {[message |-> "hi"]}

\* Presence (SpecPresence): every kind of handshake, then joins, leaves and
\* disconnections.
NextPresence ==
  \/ \E s \in SocketIds, h \in RelayHandshakes : Connect(s, h)
  \/ \E s \in SocketIds : UserJoin(s)
  \/ \E s \in SocketIds : UserLeave(s)
  \/ \E s \in SocketIds : Disconnect(s)

SpecPresence == InitRelay /\ [][NextPresence]_vars

\* Relay (SpecRelay): verified users connect to the private project p1 or to
\* an open project, join and leave, and emit editor, cursor and chat events.
ScopeProjects == {ProjectId(1), ProjectId(NumProjects)}
VerifiedHandshakes ==
  {h \in RelayHandshakes : h.token \in ValidTokens /\ h.projectId \in ScopeProjects}

NextRelay ==
  \/ \E s \in SocketIds, h \in VerifiedHandshakes : Connect(s, h)
  \/ \E s \in SocketIds : UserJoin(s)
  \/ \E s \in SocketIds : UserLeave(s)
  \/ \E s \in SocketIds : Disconnect(s)
  \/ \E s \in SocketIds, d \in EditorPayloads : EditorFullUpdate(s, d)
  \/ \E s \in SocketIds, d \in EditorPayloads : EditorChange(s, d)
  \/ \E s \in SocketIds, d \in EditorPayloads : CursorMove(s, d)
  \/ \E s \in SocketIds, d \in ChatPayloads : ChatMessage(s, d)

SpecRelay == InitRelay /\ [][NextRelay]_vars

(***************************************************************************)
(* Page lifecycle (SpecPages): one connection of the owner of project p1   *)
(* adds, removes and updates the pages of p1; pages are also deleted over  *)
(* REST.                                                                   *)
(***************************************************************************)
InitPages ==
  /\ InitRelay
  /\ build = "collab+pages"

OwnerHandshake ==
  [token |-> GoodToken(UserId(1)), projectId |-> ProjectId(1), linkToken |-> Absent]

LifecyclePayloads ==
  [projectId : {ProjectId(1)}, pageId : PageIds, pageName : {Absent, "Home"},
   html : {Absent}, isDefault : BOOLEAN]

NextPages ==
  \/ Connect(1, OwnerHandshake)
  \/ \E d \in LifecyclePayloads : PageAdd(1, d)
  \/ \E d \in LifecyclePayloads : PageRemove(1, d)
  \/ \E d \in LifecyclePayloads : PageUpdate(1, d)
  \/ \E id \in 1..(Len(pages) + 1) : RestDeletePage(id)

SpecPages == InitPages /\ [][NextPages]_vars

(***************************************************************************)
(* Page rooms (SpecRoom): connections A = 1 and B = 2, both authorized on  *)
(* project p1, join rooms; A emits page events whose payload names p1 or   *)
(* another project.                                                        *)
(***************************************************************************)
RoomSockets == {1, 2}
RoomPayloads ==
  [projectId : ScopeProjects, pageId : {"pg1"}, pageName : {"Home"},
   html : {Absent}, isDefault : {FALSE}]
JoinPayloads == [projectId : ScopeProjects \cup {Absent}]

NextRoom ==
  \/ \E s \in RoomSockets : Connect(s, OwnerHandshake)
  \/ \E s \in RoomSockets : UserJoin(s)
  \/ \E s \in RoomSockets, d \in JoinPayloads : JoinProject(s, d)
  \/ \E d \in RoomPayloads : PageAdd(1, d)
  \/ \E d \in RoomPayloads : PageRemove(1, d)
  \/ \E d \in RoomPayloads : PageUpdate(1, d)
  \/ \E d \in RoomPayloads : PageSelect(1, d)
  \/ \E d \in JoinPayloads : PageRequestSync(1, d)

SpecRoom == InitPages /\ [][NextRoom]_vars

(***************************************************************************)
(* Properties of the gate and the presence tracker (SpecPresence) and of   *)
(* the relay (SpecRelay).                                                  *)
(***************************************************************************)
Receivers(ev) == {m.to : m \in {x \in out : x.ev = ev}}
SameProject(a, b) == sockets[a].projectId = sockets[b].projectId

\* C4: a connection attempt whose token is missing or does not verify is
\* rejected, its handlers are never registered (the socket takes no step
\* and stays rejected), and it never gets into a room or the joined set.
C4_Rejected ==
  /\ (last.ev = "connect" /\ last.data.token \notin ValidTokens)
       => sockets[last.sock].state = "rejected"
  /\ \A s \in SocketIds : sockets[s].state = "rejected" =>
       /\ membership[s] = "never"
       /\ \A r \in RoomNames : s \notin rooms[r]
C4_RejectedStays ==
  \A s \in SocketIds : sockets[s].state = "rejected" =>
     /\ sockets'[s] = sockets[s]
     /\ last'.sock # s
C4_BadTokenNeverPresent == []C4_Rejected /\ [][C4_RejectedStays]_vars
C4_Witness ==
  \E s, t \in SocketIds :
     /\ sockets[s].state = "rejected" /\ sockets[s].error = ErrAuth
     /\ t \in joined /\ HasRoster(sockets[t].projectId)

\* C5: a verified user who is not the owner, holds no permission row and
\* does not present the project's link token (with linkAccess other than
\* 'none') is rejected as forbidden.
LinkAccessSatisfied(h) ==
  /\ projects[h.projectId].linkAccess # "none"
  /\ h.linkToken # Absent
  /\ h.linkToken = projects[h.projectId].linkToken
C5_ForbiddenWithoutLinkToken ==
  (/\ last.ev = "connect"
   /\ last.data.token \in ValidTokens
   /\ last.data.projectId \in DOMAIN projects
   /\ projects[last.data.projectId].ownerId # TokenUser(last.data.token).id
   /\ ~HasPermissionRow(last.data.projectId, TokenUser(last.data.token).id)
   /\ ~LinkAccessSatisfied(last.data))
  => (/\ sockets[last.sock].state = "rejected"
      /\ sockets[last.sock].error = ErrForbidden)

\* C6: an editor:full-update, editor:change or cursor:move emitted by a
\* joined connection A reaches every other connection B joined on the same
\* project, with A's envelope, and does not come back to A.
EditorEvents == {"editor:full-update", "editor:change", "cursor:move"}
C6_EditorRelay ==
  (last.ev \in EditorEvents /\ last.sock \in joined) =>
     /\ \A b \in joined \ {last.sock} : SameProject(last.sock, b) =>
          [to |-> b, ev |-> last.ev, data |-> last.data] \in out
     /\ \A m \in out : m.to # last.sock
C6_Witness ==
  /\ last.ev = "cursor:move" /\ last.sock \in joined
  /\ \E b \in joined \ {last.sock} : SameProject(last.sock, b) /\ b \in Receivers("cursor:move")

\* C8: a chat:message emitted by a joined connection reaches every connection
\* joined on that project, the sender included, and the step changes no row
\* of the store.
C8_Echo ==
  (last.ev = "chat:message" /\ last.sock \in joined) =>
     \A b \in joined : SameProject(last.sock, b) =>
        [to |-> b, ev |-> "chat:message", data |-> last.data] \in out
C8_NoDurableChange ==
  last'.ev = "chat:message" => UNCHANGED <<projects, permissions, pages, versions>>
C9_RosterIsPresentUsers ==
  /\ \A q \in ProjectIds :
       /\ RosterIds(Roster(q)) = present[q]
       /\ Len(Roster(q)) = Cardinality(present[q])
  /\ last.ev = "user-join" =>
       /\ out # {}
       /\ \A m \in out :
            /\ m.ev = "presence-update"
            /\ RosterIds(m.data) = present[last.data.projectId]
            /\ Len(m.data) = Cardinality(present[last.data.projectId])
C9_Witness ==
  /\ last.ev = "user-join"
  /\ \E s \in joined \ {last.sock} :
        /\ SameProject(s, last.sock)
        /\ sockets[s].user = sockets[last.sock].user
  /\ Len(Roster(last.data.projectId)) = 1

\* C10 as stated: after a connection disconnects or emits user-leave its
\* user is not in the roster, no later step of the connection re-adds it
\* and no project maps to an empty roster.
C10_GoneAfterLeave ==
  /\ last.ev \in {"user-leave", "disconnect"} =>
       last.data.userId \notin RosterIds(Roster(last.data.projectId))
  /\ \A q \in DOMAIN activeUsers : Len(activeUsers[q]) > 0
\* the step puts the user of s into the roster of its project
ReAdds(s) ==
  /\ sockets[s].user.id \notin RosterIds(Roster(sockets[s].projectId))
  /\ sockets[s].projectId \in DOMAIN activeUsers'
  /\ sockets[s].user.id \in RosterIds(activeUsers'[sockets[s].projectId])
C10_NoStepReAdds ==
  \A s \in SocketIds :
     /\ sockets[s].state = "closed" => last'.sock # s
     /\ (Established(s) /\ membership[s] = "left" /\ last'.sock = s) =>
           ~ReAdds(s)
C10_NeverReAdded == []C10_GoneAfterLeave /\ [][C10_NoStepReAdds]_vars

\* C10 amended: the same, except that a connection that emitted user-leave
\* re-adds its user by emitting user-join again.
C10_NoStepButJoinReAdds ==
  \A s \in SocketIds :
     /\ sockets[s].state = "closed" => last'.sock # s
     /\ (Established(s) /\ membership[s] = "left" /\ last'.sock = s
           /\ last'.ev # "user-join") =>
           ~ReAdds(s)
C10_ReAddedOnlyByJoin == []C10_GoneAfterLeave /\ [][C10_NoStepButJoinReAdds]_vars
C10_Witness ==
  /\ last.ev = "disconnect"
  /\ ~HasRoster(last.data.projectId)
  /\ \E s \in SocketIds : Established(s) /\ membership[s] = "left"
                           /\ last.data.projectId = sockets[s].projectId

(***************************************************************************)
(* Properties of the page lifecycle (SpecPages) and of the page rooms      *)
(* (SpecRoom).                                                             *)
(***************************************************************************)
\* C1: after any sequence of page:add, page:remove and page:update, every
\* project has exactly min(1, number of live pages) live default pages.
C1_ExactlyOneDefault ==
  \A q \in ProjectIds :
     Cardinality(DefaultPages(pages, q)) = IF LivePages(pages, q) = {} THEN 0 ELSE 1

\* C2: removing the only live page of a project, over the socket or over
\* REST, is refused with an error and leaves the live pages as they were,
\* whether or not the page is flagged default.
RemovalTargets(i) ==
  \/ /\ last'.ev = "page:remove"
     /\ last'.data.projectId = pages[i].projectId
     /\ last'.data.pageId = pages[i].clientId
  \/ /\ last'.ev = "DELETE /pages/:id"
     /\ last'.data.id = i
RefusedResponse ==
  \E m \in out' : m.ev = "error" \/ (m.ev = "http" /\ m.data.status = 400)
C2_LastPageStep ==
  \A i \in PageRowIds(pages) :
     (RemovalTargets(i) /\ LivePages(pages, pages[i].projectId) = {i}) =>
        /\ RefusedResponse
        /\ LivePages(pages', pages[i].projectId) = {i}
C2_LastPageKept == [][C2_LastPageStep]_vars

\* C3: a page event of a connection authorized for project P changes no Page
\* row of another project, answers a sync with the pages of P only and
\* reaches no connection outside the page room of P, whatever projectId the
\* payload carries.
ScopedPageEvents == {"page:add", "page:remove", "page:update", "page:request-sync"}
RowsOutside(pgs, projectId) ==
  {<<i, pgs[i]>> : i \in {j \in PageRowIds(pgs) : pgs[j].projectId # projectId}}
SyncOf(projectId) ==
  [i \in 1..Len(SelectSeq(pages, LAMBDA row : ~row.isDeleted /\ row.projectId = projectId))
     |-> SyncEntry(SelectSeq(pages, LAMBDA row : ~row.isDeleted /\ row.projectId = projectId)[i])]
C3_ScopedStep ==
  last'.ev \in ScopedPageEvents =>
     /\ RowsOutside(pages', sockets[last'.sock].projectId)
          = RowsOutside(pages, sockets[last'.sock].projectId)
     /\ \A m \in out' :
          /\ m.ev = "page:full-sync" => m.data.pages = SyncOf(sockets[last'.sock].projectId)
          /\ m.to # last'.sock => m.to \in rooms[PageRoom(sockets[last'.sock].projectId)]
C3_ScopedToAuthorizedProject == [][C3_ScopedStep]_vars

\* C7 as stated: a page event that connection A emits for its project and
\* that is not answered with an error reaches every other connection that
\* joined the project with user-join, unchanged, and does not come back to A.
RelayedPageEvents == {"page:add", "page:remove", "page:update", "page:select"}
Accepted == last.ev \in RelayedPageEvents /\ \A m \in out : m.ev # "error"
InPageRoomOf(s, projectId) == Established(s) /\ projectId \in pageJoins[s]
RoomAtEmit == IF last'.ev = "user-join"
              THEN rooms'[CollabRoom(last'.data.projectId)]
              ELSE rooms[CollabRoom(last'.data.projectId)]

C11_BroadcastStep ==
  last'.ev \in {"user-join", "user-leave"} =>
    out' = Deliver(RoomAtEmit, "presence-update",
                   IF last'.data.projectId \in DOMAIN activeUsers'
                   THEN activeUsers'[last'.data.projectId] ELSE << >>)

\* C11: every user-join and every user-leave broadcasts a presence-update
\* with the project's current roster to every connection in the project's
\* room, also when the leave empties the roster.
C11_PresenceBroadcast == [][C11_BroadcastStep]_vars

(***************************************************************************)
(* REST API over the store: projects, permissions, locking, versions and   *)
(* link access.  Every route is behind authMiddleware; `userId' is the id  *)
(* of the verified bearer token (req.user.id).  A request is one step; its *)
(* response goes to the HTTP client, receiver 0.                           *)
(***************************************************************************)
MaxClock == 2
MaxVersions == 2
MaxTokens == 2

\* new Date(), as a string
Now == "t" \o ToString(clock)
\* the caller's ids: the users, and targets that name no row
UnknownUser == "no-such-user"

RestStep(route, request) ==
  /\ last' = [ev |-> route, sock |-> 0, data |-> request]
  /\ UNCHANGED <<build, inflight, pages, sockets, activeUsers, rooms, clientPages,
                 membership, present, pageJoins>>

\* res.status(status).json(body)
Reply(status, body) ==
  out' = {[to |-> 0, ev |-> "http", data |-> [status |-> status, body |-> body]]}
\* the status of the response of the last step
Status == {m.data.status : m \in {x \in out : x.ev = "http"}}

\* project.permissions (include: { permissions: true })
PermissionsOf(projectId) == {r \in permissions : r.projectId = projectId}

\* project.ownerId === userId || project.permissions.some(p => p.userId === userId)
hasAccess(projectId, userId) ==
  \/ projects[projectId].ownerId = userId
  \/ \E p \in PermissionsOf(projectId) : p.userId = userId

\* mutant: any permission row grants writing
canWrite_AnyRow(projectId, userId) ==
  \/ projects[projectId].ownerId = userId
  \/ \E p \in PermissionsOf(projectId) : p.userId = userId
\* project.ownerId === userId ||
\*   project.permissions.some(p => p.userId === userId && p.permission === 'write')
canWrite(projectId, userId) ==
  \/ projects[projectId].ownerId = userId
  \/ \E p \in PermissionsOf(projectId) : p.userId = userId /\ p.permission = "write"

\* time passes between requests
Tick ==
  /\ clock < MaxClock
  /\ clock' = clock + 1
  /\ last' = [ev |-> "tick", sock |-> 0, data |-> Absent]
  /\ out' = {}
  /\ UNCHANGED <<build, inflight, projects, permissions, versions, issued, pages, sockets,
                 activeUsers, rooms, clientPages, membership, present, pageJoins>>

(***************************************************************************)
(* Locking router.                                                         *)
(***************************************************************************)
\* mutant: the lock is taken over from its holder
RestLock_Steal(userId, projectId) ==
  /\ RestStep("POST /lock", [userId |-> userId, projectId |-> projectId])
  /\ UNCHANGED <<permissions, versions, clock, issued>>
  /\ IF ~ProjectExists(projectId)
     THEN Reply(404, "Not found") /\ projects' = projects
     ELSE IF ~canWrite(projectId, userId)
     THEN Reply(403, "Forbidden") /\ projects' = projects
     ELSE /\ projects' = [projects EXCEPT ![projectId].lockedById = userId,
                                          ![projectId].lockedAt = Now]
          /\ Reply(200, [isLocked |-> TRUE])

\* router.post('/lock')
RestLock(userId, projectId) ==
  /\ RestStep("POST /lock", [userId |-> userId, projectId |-> projectId])
  /\ UNCHANGED <<permissions, versions, clock, issued>>
  /\ IF ~ProjectExists(projectId)
     THEN Reply(404, "Not found") /\ projects' = projects
     ELSE IF ~canWrite(projectId, userId)
     THEN Reply(403, "Forbidden") /\ projects' = projects
     ELSE IF projects[projectId].lockedById # Absent
             /\ projects[projectId].lockedById # userId
     THEN Reply(409, "Project is already locked by another user")
          /\ projects' = projects
     ELSE /\ projects' = [projects EXCEPT ![projectId].lockedById = userId,
                                          ![projectId].lockedAt = Now]
          /\ Reply(200, [isLocked |-> TRUE])

\* mutant: the unlock clears the holder and keeps the time
RestUnlock_KeepsTime(userId, projectId) ==
  /\ RestStep("POST /unlock", [userId |-> userId, projectId |-> projectId])
  /\ UNCHANGED <<permissions, versions, clock, issued>>
  /\ IF ~ProjectExists(projectId)
     THEN Reply(404, "Not found") /\ projects' = projects
     ELSE IF ~canWrite(projectId, userId)
     THEN Reply(403, "Forbidden") /\ projects' = projects
     ELSE IF projects[projectId].lockedById = Absent
             \/ projects[projectId].lockedById # userId
     THEN Reply(409, "You do not hold the lock") /\ projects' = projects
     ELSE /\ projects' = [projects EXCEPT ![projectId].lockedById = Absent]
          /\ Reply(200, [isLocked |-> FALSE])

\* router.post('/unlock')
RestUnlock(userId, projectId) ==
  /\ RestStep("POST /unlock", [userId |-> userId, projectId |-> projectId])
  /\ UNCHANGED <<permissions, versions, clock, issued>>
  /\ IF ~ProjectExists(projectId)
     THEN Reply(404, "Not found") /\ projects' = projects
     ELSE IF ~canWrite(projectId, userId)
     THEN Reply(403, "Forbidden") /\ projects' = projects
     ELSE IF projects[projectId].lockedById = Absent
             \/ projects[projectId].lockedById # userId
     THEN Reply(409, "You do not hold the lock") /\ projects' = projects
     ELSE /\ projects' = [projects EXCEPT ![projectId].lockedById = Absent,
                                          ![projectId].lockedAt = Absent]
          /\ Reply(200, [isLocked |-> FALSE])

(***************************************************************************)
(* Permissions router.  The target of an upsert is found by e-mail; users  *)
(* and e-mails correspond one to one, so the target is given as the user   *)
(* id the e-mail belongs to, or UnknownUser.                               *)
(***************************************************************************)
PermissionRow(projectId, userId, permission) ==
  [projectId |-> projectId, userId |-> userId, permission |-> permission]

\* mutant: the permission is inserted whether or not the pair has a row
Upsert_Insert(rows, projectId, userId, permission) ==
  rows \cup {PermissionRow(projectId, userId, permission)}
\* prisma.projectPermission.upsert on the unique key (projectId, userId)
Upsert(rows, projectId, userId, permission) ==
  {r \in rows : ~(r.projectId = projectId /\ r.userId = userId)}
    \cup {PermissionRow(projectId, userId, permission)}

\* router.post('/') of the permissions router
RestUpsertPermission(userId, projectId, target, permission) ==
  /\ RestStep("POST /permissions",
       [userId |-> userId, projectId |-> projectId, target |-> target,
        permission |-> permission])
  /\ UNCHANGED <<projects, versions, clock, issued>>
  /\ IF permission \notin {"read", "write"}
     THEN Reply(400, "Invalid request body") /\ permissions' = permissions
     ELSE IF ~ProjectExists(projectId)
     THEN Reply(404, "Project not found") /\ permissions' = permissions
     ELSE IF projects[projectId].ownerId # userId
     THEN Reply(403, "Forbidden") /\ permissions' = permissions
     ELSE IF target \notin Users
     THEN Reply(404, "User not found") /\ permissions' = permissions
     ELSE IF target = userId
     THEN Reply(400, "Cannot manage owner permissions") /\ permissions' = permissions
     ELSE /\ permissions' = Upsert(permissions, projectId, target, permission)
          /\ Reply(200, [userId |-> target, permission |-> permission])

\* router.delete('/:userId') of the permissions router
RestDeletePermission(userId, projectId, target) ==
  /\ RestStep("DELETE /permissions/:userId",
       [userId |-> userId, projectId |-> projectId, target |-> target])
  /\ UNCHANGED <<projects, versions, clock, issued>>
  /\ IF ~ProjectExists(projectId)
     THEN Reply(404, "Not found") /\ permissions' = permissions
     ELSE IF projects[projectId].ownerId # userId
     THEN Reply(403, "Forbidden") /\ permissions' = permissions
     ELSE /\ permissions' =
               {r \in permissions : ~(r.projectId = projectId /\ r.userId = target)}
          /\ Reply(204, Absent)

(***************************************************************************)
(* Initial store of the REST specifications: project p1 as POST /projects  *)
(* creates it for user 1 (the owner holds a 'write' row, link access is    *)
(* 'none', no lock), no version, no page, no connection.                   *)
(***************************************************************************)
InitRest ==
  /\ InitProcess
  /\ build = "collab+pages"
  /\ projects = [q \in {ProjectId(1)} |-> ProjectRow(UserId(1), "none", Absent)]
  /\ permissions = {PermissionRow(ProjectId(1), UserId(1), "write")}
  /\ pages = << >>

\* the projects and users requests name
RestProjects == {ProjectId(1), UnknownProject}
PermissionValues == {"read", "write"}

\* Locking (SpecLocking): users lock and unlock p1 while the owner grants,
\* changes and removes permissions and time passes.
NextLocking ==
  \/ Tick
  \/ \E u \in Users, p \in RestProjects : RestLock(u, p)
  \/ \E u \in Users, p \in RestProjects : RestUnlock(u, p)
  \/ \E u \in Users, t \in Users, v \in PermissionValues :
        RestUpsertPermission(u, ProjectId(1), t, v)
  \/ \E u \in Users, t \in Users : RestDeletePermission(u, ProjectId(1), t)

SpecLocking == InitRest /\ [][NextLocking]_vars

Unlocked(row) == row.lockedById = Absent /\ row.lockedAt = Absent
Succeeded(route) == last.ev = route /\ Status = {200}

C12_Paired ==
  /\ \A p \in DOMAIN projects :
        (projects[p].lockedById = Absent) <=> (projects[p].lockedAt = Absent)
  /\ Succeeded("POST /lock") =>
        /\ projects[last.data.projectId].lockedById = last.data.userId
        /\ projects[last.data.projectId].lockedAt = Now
  /\ Succeeded("POST /unlock") => Unlocked(projects[last.data.projectId])
C12_LockThenUnlock ==
  (/\ Succeeded("POST /lock")
   /\ last'.ev = "POST /unlock" /\ last'.data = last.data)
    => Unlocked(projects'[last.data.projectId])
\* C12: lockedById and lockedAt are both null or both set in every reachable
\* state; a successful lock sets them to the caller and the current time, a
\* successful unlock clears both, and a lock directly followed by an unlock
\* of the same user leaves the project unlocked.
C12_LockFieldsPaired == []C12_Paired /\ [][C12_LockThenUnlock]_vars
C12_Witness ==
  /\ Succeeded("POST /unlock")
  /\ clock > 1
  /\ last.data.userId # projects[last.data.projectId].ownerId

\* the request of the step is a lock of a project another user holds, or an
\* unlock of a project the caller does not hold
LockConflict ==
  /\ last'.ev \in {"POST /lock", "POST /unlock"}
  /\ ProjectExists(last'.data.projectId)
  /\ IF last'.ev = "POST /lock"
     THEN projects[last'.data.projectId].lockedById \notin {Absent, last'.data.userId}
     ELSE projects[last'.data.projectId].lockedById # last'.data.userId
Refused409 == Status' = {409} /\ projects' = projects

C13_ConflictStep == LockConflict => Refused409
\* C13 as stated: a lock of a project locked by another user and an unlock by
\* a user who does not hold the lock are answered 409, lock fields unchanged.
C13_Conflict409 == [][C13_ConflictStep]_vars

C13_WriterConflictStep ==
  (LockConflict /\ canWrite(last'.data.projectId, last'.data.userId)) => Refused409
\* C13 amended: the same, for callers with write access to the project (the
\* owner or the holder of a 'write' row); other callers are answered 403.
C13_WriterConflict409 == [][C13_WriterConflictStep]_vars
C13_Witness ==
  /\ last.ev = "POST /lock" /\ Status = {409}
  /\ projects[last.data.projectId].lockedById \notin {Absent, last.data.userId}

(***************************************************************************)
(* Versions router.  A ProjectVersion row is [projectId, createdById,      *)
(* comment, snapshot]; its id is its position in `versions', which is also *)
(* the order of createdAt.  The snapshot column is NOT NULL: a create      *)
(* without a snapshot is refused by the store, and the rejection escapes   *)
(* the handler, which sends no response.                                   *)
(***************************************************************************)
VersionIds == 1..Len(versions)
VersionRow(projectId, userId, comment, snapshot) ==
  [projectId |-> projectId, createdById |-> userId, comment |-> comment,
   snapshot |-> snapshot]
RestoredComment(versionId) == "Restored from version " \o ToString(versionId)
\* the handler rejects: no response is sent
Unhandled == out' = {[to |-> 0, ev |-> "unhandled rejection", data |-> Absent]}

\* versionCreateSchema: comment is an optional string, snapshot is anything
NotAString == "<a value that is not a string>"
VersionBodyValid(body) == body.comment # NotAString

\* router.post('/') of the versions router
RestCreateVersion(userId, projectId, body) ==
  /\ Len(versions) < MaxVersions
  /\ RestStep("POST /versions",
       [userId |-> userId, projectId |-> projectId, body |-> body])
  /\ UNCHANGED <<projects, permissions, clock, issued>>
  /\ IF ~VersionBodyValid(body)
     THEN Reply(400, "validation") /\ versions' = versions
     ELSE IF ~ProjectExists(projectId)
     THEN Reply(404, "Not found") /\ versions' = versions
     ELSE IF ~canWrite(projectId, userId)
     THEN Reply(403, "Forbidden") /\ versions' = versions
     ELSE IF body.snapshot = Absent
     THEN Unhandled /\ versions' = versions
     ELSE /\ versions' = Append(versions,
               VersionRow(projectId, userId, body.comment, body.snapshot))
          /\ Reply(201, [id |-> Len(versions) + 1, projectId |-> projectId,
                         snapshot |-> body.snapshot])

\* mutant: the restore rewrites the source version instead of copying it
RestRestoreVersion_InPlace(userId, projectId, versionId) ==
  /\ Len(versions) < MaxVersions
  /\ RestStep("POST /versions/:versionId/restore",
       [userId |-> userId, projectId |-> projectId, versionId |-> versionId])
  /\ UNCHANGED <<projects, permissions, clock, issued>>
  /\ IF ~ProjectExists(projectId)
     THEN Reply(404, "Not found") /\ versions' = versions
     ELSE IF ~canWrite(projectId, userId)
     THEN Reply(403, "Forbidden") /\ versions' = versions
     ELSE IF versionId \notin VersionIds \/ versions[versionId].projectId # projectId
     THEN Reply(404, "Version not found") /\ versions' = versions
     ELSE /\ versions' = [versions EXCEPT ![versionId].createdById = userId,
                                          ![versionId].comment = RestoredComment(versionId)]
          /\ Reply(201, [snapshot |-> versions[versionId].snapshot])

\* router.post('/:versionId/restore')
RestRestoreVersion(userId, projectId, versionId) ==
  /\ Len(versions) < MaxVersions
  /\ RestStep("POST /versions/:versionId/restore",
       [userId |-> userId, projectId |-> projectId, versionId |-> versionId])
  /\ UNCHANGED <<projects, permissions, clock, issued>>
  /\ IF ~ProjectExists(projectId)
     THEN Reply(404, "Not found") /\ versions' = versions
     ELSE IF ~canWrite(projectId, userId)
     THEN Reply(403, "Forbidden") /\ versions' = versions
     ELSE IF versionId \notin VersionIds \/ versions[versionId].projectId # projectId
     THEN Reply(404, "Version not found") /\ versions' = versions
     ELSE /\ versions' = Append(versions,
               VersionRow(projectId, userId, RestoredComment(versionId),
                          versions[versionId].snapshot))
          /\ Reply(201, [snapshot |-> versions[versionId].snapshot])

\* findMany({ where: { projectId }, orderBy: { createdAt: 'desc' } })
VersionsDesc(projectId) ==
  LET mine == SelectSeq(versions, LAMBDA v : v.projectId = projectId)
  IN [i \in 1..Len(mine) |-> mine[Len(mine) + 1 - i]]

\* router.get('/') of the versions router
RestListVersions(userId, projectId) ==
  /\ RestStep("GET /versions", [userId |-> userId, projectId |-> projectId])
  /\ UNCHANGED <<projects, permissions, versions, clock, issued>>
  /\ IF ~ProjectExists(projectId) THEN Reply(404, "Not found")
     ELSE IF ~hasAccess(projectId, userId) THEN Reply(403, "Forbidden")
     ELSE Reply(200, VersionsDesc(projectId))

\* router.get('/:versionId')
RestGetVersion(userId, projectId, versionId) ==
  /\ RestStep("GET /versions/:versionId",
       [userId |-> userId, projectId |-> projectId, versionId |-> versionId])
  /\ UNCHANGED <<projects, permissions, versions, clock, issued>>
  /\ IF ~ProjectExists(projectId) THEN Reply(404, "Not found")
     ELSE IF ~hasAccess(projectId, userId) THEN Reply(403, "Forbidden")
     ELSE IF versionId \notin VersionIds \/ versions[versionId].projectId # projectId
     THEN Reply(404, "Version not found")
     ELSE Reply(200, versions[versionId])

\* Versions (SpecVersions): the owner and a collaborator whose permission the
\* owner changes create, restore and read versions of p1.
Snapshots == {Absent, "snapshot A", "snapshot B"}
VersionBodies == [comment : {"c"}, snapshot : Snapshots]
\* the callers: the owner and the collaborator
Callers == {UserId(1), UserId(NumUsers)}

NextVersions ==
  \/ \E u \in Callers, p \in RestProjects, b \in VersionBodies : RestCreateVersion(u, p, b)
  \/ \E u \in Callers, p \in RestProjects, v \in 1..(Len(versions) + 1) :
        RestRestoreVersion(u, p, v)
  \/ \E u \in Callers, p \in RestProjects : RestListVersions(u, p)
  \/ \E u \in Callers, p \in RestProjects, v \in 1..(Len(versions) + 1) :
        RestGetVersion(u, p, v)
  \/ \E v \in PermissionValues :
        RestUpsertPermission(UserId(1), ProjectId(1), UserId(NumUsers), v)

SpecVersions == InitRest /\ [][NextVersions]_vars

C14_Immutable ==
  /\ Len(versions') >= Len(versions)
  /\ \A i \in VersionIds : versions'[i] = versions[i]
C14_RestoreCopies ==
  (last'.ev = "POST /versions/:versionId/restore" /\ Status' = {201}) =>
    /\ Len(versions') = Len(versions) + 1
    /\ last'.data.versionId \in VersionIds
    /\ versions'[Len(versions')].projectId = last'.data.projectId
    /\ versions'[Len(versions')].projectId = versions[last'.data.versionId].projectId
    /\ versions'[Len(versions')].snapshot = versions[last'.data.versionId].snapshot
C14_AppendOnlyStep ==
  /\ C14_Immutable
  /\ C14_RestoreCopies
  /\ last'.ev \notin {"POST /versions", "POST /versions/:versionId/restore"}
       => versions' = versions
\* C14: a restore creates one new version of the same project with the source
\* version's snapshot, and no step modifies or removes an existing version.
C14_AppendOnly == [][C14_AppendOnlyStep]_vars
C14_Witness ==
  /\ last.ev = "POST /versions/:versionId/restore" /\ Status = {201}
  /\ Len(versions) = 2
  /\ versions[1].createdById # versions[2].createdById
  /\ versions[1].snapshot = versions[2].snapshot

(***************************************************************************)
(* Project router: creation.  Ids are handed out in order: the n-th        *)
(* project created is ProjectId(n).                                        *)
(***************************************************************************)
ProjectNames == {"P", "Proyecto"}
\* projectCreateSchema / projectUpdateSchema: name is a string of 2 characters or more
NameValid(name) == name \in {"Proyecto", "Renombrado"}

\* router.post('/') of the project router
RestCreateProject(userId, body) ==
  /\ Cardinality(DOMAIN projects) < NumProjects
  /\ RestStep("POST /projects", [userId |-> userId, body |-> body])
  /\ UNCHANGED <<versions, clock, issued>>
  /\ IF userId \notin Users
     THEN Reply(404, "Owner user not found") /\ UNCHANGED <<projects, permissions>>
     ELSE IF ~NameValid(body.name)
     THEN Reply(400, "validation") /\ UNCHANGED <<projects, permissions>>
     ELSE LET id == ProjectId(Cardinality(DOMAIN projects) + 1)
          IN /\ projects' = [q \in DOMAIN projects \cup {id} |->
                  IF q = id
                  THEN [ProjectRow(userId, "none", Absent) EXCEPT !.name = body.name]
                  ELSE projects[q]]
             /\ permissions' = permissions \cup {PermissionRow(id, userId, "write")}
             /\ Reply(201, id)

\* Permissions (SpecPermissions): from an empty store, users create projects
\* and grant, change and remove permissions.
InitEmptyStore ==
  /\ InitProcess
  /\ build = "collab+pages"
  /\ projects = [q \in {} |-> ProjectRow(Absent, "none", Absent)]
  /\ permissions = {}
  /\ pages = << >>

PermissionInputs == PermissionValues \cup {"admin"}
PermissionTargets == Callers \cup {UnknownUser}
PermissionProjects == {ProjectId(1), ProjectId(NumProjects), UnknownProject}

NextPermissions ==
  \/ \E u \in Callers \cup {UnknownUser}, n \in ProjectNames :
        RestCreateProject(u, [name |-> n])
  \/ \E u \in Callers, p \in PermissionProjects, t \in PermissionTargets,
        v \in PermissionInputs : RestUpsertPermission(u, p, t, v)
  \/ \E u \in Callers, p \in PermissionProjects, t \in PermissionTargets :
        RestDeletePermission(u, p, t)

SpecPermissions == InitEmptyStore /\ [][NextPermissions]_vars

RowsOfPair(rows, projectId, userId) ==
  {r \in rows : r.projectId = projectId /\ r.userId = userId}

C15_OneRowPerPair ==
  \A r \in permissions : RowsOfPair(permissions, r.projectId, r.userId) = {r}
C15_UpsertReplaces ==
  (/\ last'.ev = "POST /permissions" /\ Status' = {200}
   /\ RowsOfPair(permissions, last'.data.projectId, last'.data.target) # {})
    => /\ Cardinality(permissions') = Cardinality(permissions)
       /\ RowsOfPair(permissions', last'.data.projectId, last'.data.target)
            = {PermissionRow(last'.data.projectId, last'.data.target,
                             last'.data.permission)}
\* C15: after any sequence of project creations, permission upserts and
\* permission deletions there is at most one permission row per (project,
\* user); an upsert for a pair that has a row replaces the row's permission.
C15_UniquePermission == []C15_OneRowPerPair /\ [][C15_UpsertReplaces]_vars
C15_Witness ==
  /\ last.ev = "POST /permissions" /\ Status = {200}
  /\ last.data.permission = "read"
  /\ Cardinality(DOMAIN projects) = 2
  /\ Cardinality(permissions) = 3

(***************************************************************************)
(* Project router: reading a project and its link access.  The link token  *)
(* is crypto.randomBytes(18) in hex: the n-th token generated is           *)
(* IssuedToken(n), and no two generated tokens are equal.                  *)
(***************************************************************************)
IssuedToken(n) == "tok" \o ToString(n)
\* the tokens a client presents in ?token=
PresentedTokens == {Absent, "lt-A"} \cup {IssuedToken(n) : n \in 1..MaxTokens}

\* mutant: the link is open whenever linkAccess is not 'none'
linkGranted_NoToken(project, linkToken) == project.linkAccess # "none"
\* project.linkAccess !== 'none' && !!linkToken && !!project.linkToken
\*   && linkToken === project.linkToken
linkGranted(project, linkToken) ==
  /\ project.linkAccess # "none"
  /\ linkToken # Absent
  /\ project.linkToken # Absent
  /\ linkToken = project.linkToken

\* router.get('/:id')
RestGetProject(userId, projectId, linkToken) ==
  /\ RestStep("GET /projects/:id",
       [userId |-> userId, projectId |-> projectId, linkToken |-> linkToken])
  /\ UNCHANGED <<projects, permissions, versions, clock, issued>>
  /\ IF ~ProjectExists(projectId) THEN Reply(404, "Not found")
     ELSE IF hasAccess(projectId, userId) THEN Reply(200, projects[projectId])
     ELSE IF linkGranted(projects[projectId], linkToken)
     THEN Reply(200, projects[projectId])
     ELSE Reply(403, "Forbidden")

LinkAccessBodies == [linkAccess : LinkAccessLevels \cup {Absent}, regenerate : BOOLEAN]

\* mutant: the route does not check the owner
RestLinkAccess_AnyUser(userId, projectId, body) ==
  /\ issued < MaxTokens
  /\ RestStep("PATCH /projects/:id/link-access",
       [userId |-> userId, projectId |-> projectId, body |-> body])
  /\ UNCHANGED <<permissions, versions, clock>>
  /\ IF ~ProjectExists(projectId)
     THEN Reply(404, "Not found") /\ UNCHANGED <<projects, issued>>
     ELSE LET project == projects[projectId]
              generate == body.regenerate \/ project.linkToken = Absent
              newToken == IF generate THEN IssuedToken(issued + 1)
                          ELSE project.linkToken
              access == IF body.linkAccess = Absent THEN project.linkAccess
                        ELSE body.linkAccess
          IN /\ issued' = IF generate THEN issued + 1 ELSE issued
             /\ projects' = [projects EXCEPT ![projectId].linkAccess = access,
                                             ![projectId].linkToken = newToken]
             /\ Reply(200, [linkAccess |-> access, linkToken |-> newToken])

\* router.patch('/:id/link-access')
RestLinkAccess(userId, projectId, body) ==
  /\ issued < MaxTokens
  /\ RestStep("PATCH /projects/:id/link-access",
       [userId |-> userId, projectId |-> projectId, body |-> body])
  /\ UNCHANGED <<permissions, versions, clock>>
  /\ IF ~ProjectExists(projectId)
     THEN Reply(404, "Not found") /\ UNCHANGED <<projects, issued>>
     ELSE IF projects[projectId].ownerId # userId
     THEN Reply(403, "Forbidden") /\ UNCHANGED <<projects, issued>>
     ELSE LET project == projects[projectId]
              generate == body.regenerate \/ project.linkToken = Absent
              newToken == IF generate THEN IssuedToken(issued + 1)
                          ELSE project.linkToken
              access == IF body.linkAccess = Absent THEN project.linkAccess
                        ELSE body.linkAccess
          IN /\ issued' = IF generate THEN issued + 1 ELSE issued
             /\ projects' = [projects EXCEPT ![projectId].linkAccess = access,
                                             ![projectId].linkToken = newToken]
             /\ Reply(200, [linkAccess |-> access, linkToken |-> newToken])

\* Access (SpecAccess): the owner and another user read p1 with and without
\* link tokens, while the owner changes the link access and the other
\* user's permission.
NextAccess ==
  \/ \E u \in Callers, p \in RestProjects, t \in PresentedTokens : RestGetProject(u, p, t)
  \/ \E u \in Callers, p \in RestProjects, b \in LinkAccessBodies : RestLinkAccess(u, p, b)
  \/ \E v \in PermissionValues :
        RestUpsertPermission(UserId(1), ProjectId(1), UserId(NumUsers), v)
  \/ \E t \in Callers : RestDeletePermission(UserId(1), ProjectId(1), t)

SpecAccess == InitRest /\ [][NextAccess]_vars

\* the status C16 gives for a GET by userId with the presented token
ExpectedGetStatus(userId, projectId, linkToken) ==
  IF projectId \notin DOMAIN projects THEN 404
  ELSE IF projects[projectId].ownerId = userId THEN 200
  ELSE IF \E r \in permissions : r.projectId = projectId /\ r.userId = userId THEN 200
  ELSE IF /\ projects[projectId].linkAccess # "none"
          /\ projects[projectId].linkToken # Absent
          /\ linkToken = projects[projectId].linkToken
       THEN 200
  ELSE 403

\* C16: GET /projects/:id answers 404 for a missing project, 200 to the
\* owner and to the holder of any permission row, 200 to another user when
\* linkAccess is not 'none' and the presented token equals the project's
\* non-empty linkToken, and 403 otherwise.
C16_GetProjectStatus ==
  last.ev = "GET /projects/:id" =>
    Status = {ExpectedGetStatus(last.data.userId, last.data.projectId,
                                last.data.linkToken)}
C16_Witness ==
  /\ last.ev = "GET /projects/:id" /\ Status = {200}
  /\ ~hasAccess(last.data.projectId, last.data.userId)
  /\ issued = 2

LinkFields(row) == <<row.linkAccess, row.linkToken>>
LinkPatch == last'.ev = "PATCH /projects/:id/link-access"
LinkPatchBy(owner) ==
  /\ LinkPatch
  /\ ProjectExists(last'.data.projectId)
  /\ (projects[last'.data.projectId].ownerId = last'.data.userId) = owner

C18_LinkAccessStep ==
  /\ (LinkPatch /\ ~ProjectExists(last'.data.projectId))
       => Status' = {404} /\ projects' = projects
  /\ LinkPatchBy(FALSE) => Status' = {403} /\ projects' = projects
  /\ (LinkPatchBy(TRUE) /\ last'.data.body.regenerate
        /\ last'.data.body.linkAccess = Absent)
       => /\ projects'[last'.data.projectId].linkAccess
               = projects[last'.data.projectId].linkAccess
          /\ projects'[last'.data.projectId].linkToken
               # projects[last'.data.projectId].linkToken
          /\ projects'[last'.data.projectId].linkToken # Absent
  /\ (LinkPatchBy(TRUE) /\ ~last'.data.body.regenerate
        /\ last'.data.body.linkAccess # Absent
        /\ projects[last'.data.projectId].linkToken # Absent)
       => /\ projects'[last'.data.projectId].linkToken
               = projects[last'.data.projectId].linkToken
          /\ projects'[last'.data.projectId].linkAccess = last'.data.body.linkAccess
  /\ LinkPatch => \A p \in DOMAIN projects \ {last'.data.projectId} :
                     projects'[p] = projects[p]
\* C18: PATCH /projects/:id/link-access changes state only for the owner
\* (403 for another user, 404 for an unknown project, link fields
\* unchanged); for the owner, regenerate=true without linkAccess keeps
\* linkAccess and replaces linkToken by a different value, and a request
\* with only linkAccess keeps an existing linkToken.
C18_LinkAccessOwnerOnly == [][C18_LinkAccessStep]_vars
C18_Witness ==
  /\ last.ev = "PATCH /projects/:id/link-access" /\ Status = {200}
  /\ last.data.body.regenerate /\ last.data.body.linkAccess = Absent
  /\ projects[last.data.projectId].linkToken = IssuedToken(2)
  /\ projects[last.data.projectId].linkAccess = "read"

(***************************************************************************)
(* Project router: update.  Of the columns PATCH /projects/:id writes      *)
(* (name, description, isArchived, designData) the model keeps name.       *)
(***************************************************************************)
\* projectUpdateSchema: every field is optional
UpdateBodyValid(body) == body.name = Absent \/ NameValid(body.name)

\* router.patch('/:id')
RestUpdateProject(userId, projectId, body) ==
  /\ RestStep("PATCH /projects/:id",
       [userId |-> userId, projectId |-> projectId, body |-> body])
  /\ UNCHANGED <<permissions, versions, clock, issued>>
  /\ IF ~UpdateBodyValid(body)
     THEN Reply(400, "validation") /\ projects' = projects
     ELSE IF ~ProjectExists(projectId)
     THEN Reply(404, "Not found") /\ projects' = projects
     ELSE IF ~canWrite(projectId, userId)
     THEN Reply(403, "Forbidden") /\ projects' = projects
     ELSE /\ projects' = [projects EXCEPT ![projectId].name =
                            IF body.name = Absent THEN @ ELSE body.name]
          /\ Reply(200, [name |-> projects'[projectId].name])

\* Write access (SpecWriteAccess): the owner and a collaborator, whose row
\* the owner sets to 'read' or 'write' or removes, read and write p1.
UpdateBodies == [name : {Absent, "P", "Renombrado"}]
WriteVersionBodies == [comment : {"c", NotAString}, snapshot : {"snapshot A"}]

NextWriteAccess ==
  \/ \E u \in Callers, b \in UpdateBodies : RestUpdateProject(u, ProjectId(1), b)
  \/ \E u \in Callers, b \in WriteVersionBodies : RestCreateVersion(u, ProjectId(1), b)
  \/ \E u \in Callers, v \in 1..(Len(versions) + 1) :
        RestRestoreVersion(u, ProjectId(1), v)
  \/ \E u \in Callers : RestLock(u, ProjectId(1))
  \/ \E u \in Callers : RestUnlock(u, ProjectId(1))
  \/ \E u \in Callers : RestGetProject(u, ProjectId(1), Absent)
  \/ \E u \in Callers : RestListVersions(u, ProjectId(1))
  \/ \E u \in Callers, v \in 1..(Len(versions) + 1) : RestGetVersion(u, ProjectId(1), v)
  \/ \E v \in PermissionValues :
        RestUpsertPermission(UserId(1), ProjectId(1), UserId(NumUsers), v)
  \/ RestDeletePermission(UserId(1), ProjectId(1), UserId(NumUsers))

SpecWriteAccess == InitRest /\ [][NextWriteAccess]_vars

WriteRoutes == {"PATCH /projects/:id", "POST /versions",
                "POST /versions/:versionId/restore", "POST /lock", "POST /unlock"}
ReadRoutes == {"GET /projects/:id", "GET /versions", "GET /versions/:versionId"}

\* in the state before the step: the caller of the step's request is not the
\* owner and holds exactly a 'read' row / is the owner or holds a 'write' row
CallerReadsOnly ==
  /\ projects[last'.data.projectId].ownerId # last'.data.userId
  /\ RowsOfPair(permissions, last'.data.projectId, last'.data.userId)
       = {PermissionRow(last'.data.projectId, last'.data.userId, "read")}
CallerWrites ==
  \/ projects[last'.data.projectId].ownerId = last'.data.userId
  \/ PermissionRow(last'.data.projectId, last'.data.userId, "write") \in permissions
StoreUnchanged == UNCHANGED <<projects, permissions, versions>>

\* the body of the step's request passes the route's schema
BodyPasses ==
  IF last'.ev = "PATCH /projects/:id" THEN UpdateBodyValid(last'.data.body)
  ELSE IF last'.ev = "POST /versions" THEN VersionBodyValid(last'.data.body)
  ELSE TRUE

C17_Allowed ==
  /\ (last'.ev \in WriteRoutes /\ CallerWrites) => Status' # {403}
  /\ (last'.ev \in ReadRoutes /\ CallerReadsOnly) => Status' \in {{200}, {404}}
  /\ (last'.ev = "GET /projects/:id" /\ CallerReadsOnly) => Status' = {200}
  /\ (last'.ev = "GET /versions" /\ CallerReadsOnly) => Status' = {200}

C17_ReaderStep ==
  /\ (last'.ev \in WriteRoutes /\ CallerReadsOnly) => Status' = {403} /\ StoreUnchanged
  /\ C17_Allowed
\* C17 as stated: a non-owner whose only row is 'read' gets 403 and no state
\* change on update, version creation, restore, lock and unlock; the owner
\* and 'write' holders are allowed; a 'read' row grants reading.
C17_ReaderRefused403 == [][C17_ReaderStep]_vars

C17_ReaderValidStep ==
  /\ (last'.ev \in WriteRoutes /\ CallerReadsOnly) =>
        /\ StoreUnchanged
        /\ Status' = IF BodyPasses THEN {403} ELSE {400}
  /\ C17_Allowed
\* C17 amended: the same, where the 403 is the answer to a request whose
\* body passes the route's schema; a body that fails it is answered 400
\* before the permission check, also without state change.
C17_ReaderRefused == [][C17_ReaderValidStep]_vars
C17_Witness ==
  /\ last.ev = "POST /versions/:versionId/restore" /\ Status = {403}
  /\ PermissionRow(last.data.projectId, last.data.userId, "read") \in permissions
  /\ last.data.versionId \in VersionIds
  /\ projects[last.data.projectId].lockedById = last.data.userId

(***************************************************************************)
(* Page socket handlers when the store fails.  A handler awaits its        *)
(* persistence calls one after the other inside try/catch; in a run where  *)
(* the call named `stage' throws, the calls before it have taken effect,   *)
(* the catch block emits an error to the socket, and the statements after  *)
(* the call (the clientPages update and the broadcast) are not reached.    *)
(***************************************************************************)
PageFaultStep(s, ev, data, stage) ==
  /\ Established(s) /\ PagesBuild
  /\ last' = [ev |-> ev, sock |-> s, data |-> data, failed |-> stage]
  /\ UNCHANGED <<build, inflight, projects, permissions, versions, clock, issued, activeUsers,
                 membership, present, rooms, sockets, pageJoins, clientPages>>

\* mutant: the event is relayed before the persistence calls
PageAddFails_Relayed(s, data, stage) ==
  /\ data.projectId # Absent /\ data.pageId # Absent /\ data.pageName # Absent
  /\ PageFaultStep(s, "page:add", data, stage)
  /\ pages' = pages
  /\ out' = ErrorTo(s, "Error al agregar pagina")
              \cup Deliver(SocketTo(rooms, s, PageRoom(data.projectId)), "page:add", data)

\* socket.on('page:add'), a run in which findFirst ("find") or create
\* ("create") throws
PageAddFails(s, data, stage) ==
  /\ data.projectId # Absent /\ data.pageId # Absent /\ data.pageName # Absent
  /\ stage \in {"find", "create"}
  /\ stage = "create" =>
       RowsOfClientId(pages, data.projectId, data.pageId)
         \cap LivePages(pages, data.projectId) = {}
  /\ PageFaultStep(s, "page:add", data, stage)
  /\ pages' = pages
  /\ out' = ErrorTo(s, "Error al agregar pagina")

\* socket.on('page:remove'), a run in which findFirst ("find"), count
\* ("count"), the soft delete ("delete"), the findFirst of the next default
\* ("pick") or its update ("promote") throws
PageRemoveFails(s, data, stage) ==
  /\ data.projectId # Absent /\ data.pageId # Absent
  /\ stage \in {"find", "count", "delete", "pick", "promote"}
  /\ PageFaultStep(s, "page:remove", data, stage)
  /\ out' = ErrorTo(s, "Error al eliminar pagina")
  /\ LET page == RowsOfClientId(pages, data.projectId, data.pageId)
     IN IF stage = "find"
        THEN pages' = pages
        ELSE \E i \in page :
               /\ stage = "count" => pages[i].isDefault
               /\ stage \in {"delete", "pick", "promote"} => ~RemovalRefused(pages, i)
               /\ stage \in {"pick", "promote"} => pages[i].isDefault
               /\ stage = "promote" => NextDefaultCandidates(pages, i) # {}
               /\ pages' = IF stage \in {"pick", "promote"}
                           THEN SoftDelete(pages, i)
                           ELSE pages

\* socket.on('page:update'), a run in which findFirst ("find"), updateMany
\* ("clear") or update ("update") throws
PageUpdateFails(s, data, stage) ==
  /\ data.projectId # Absent /\ data.pageId # Absent
  /\ stage \in {"find", "clear", "update"}
  /\ PageFaultStep(s, "page:update", data, stage)
  /\ out' = ErrorTo(s, "Error al actualizar pagina")
  /\ LET page == RowsOfClientId(pages, data.projectId, data.pageId)
                   \cap LivePages(pages, data.projectId)
     IN IF stage = "find"
        THEN pages' = pages
        ELSE \E i \in page :
               /\ stage = "clear" => data.isDefault
               /\ pages' = IF stage = "update" /\ data.isDefault
                           THEN ClearOtherDefaults(pages, data.projectId, i)
                           ELSE pages

\* socket.on('page:request-sync'), a run in which findMany throws
PageRequestSyncFails(s, data) ==
  /\ PageFaultStep(s, "page:request-sync", data, "find")
  /\ pages' = pages
  /\ out' = ErrorTo(s, "Error al sincronizar paginas")

(***************************************************************************)
(* Page faults (SpecPageFaults): connections A = 1 and B = 2 of the owner  *)
(* join the page room of p1; A emits page events, with complete and with   *)
(* incomplete payloads, and the store may fail under A's handlers.         *)
(***************************************************************************)
FaultPageIds == {"pg1", "pg" \o ToString(NumPageIds)}
CompletePayloads ==
  [projectId : {ProjectId(1)}, pageId : FaultPageIds, pageName : {"Home"},
   html : {Absent}, isDefault : BOOLEAN]
\* payloads that lack projectId, pageId or pageName
Complete == [projectId |-> ProjectId(1), pageId |-> "pg1", pageName |-> "Home",
             html |-> Absent, isDefault |-> FALSE]
IncompletePayloads ==
  {[Complete EXCEPT !.projectId = Absent], [Complete EXCEPT !.pageId = Absent],
   [Complete EXCEPT !.pageName = Absent]}
FaultPayloads == CompletePayloads \cup IncompletePayloads
FaultJoins == [projectId : {ProjectId(1), Absent}]
FaultStages == {"find", "create", "count", "delete", "pick", "promote", "clear", "update"}

NextPageFaults ==
  \/ \E s \in RoomSockets : Connect(s, OwnerHandshake)
  \/ \E s \in RoomSockets : JoinProject(s, [projectId |-> ProjectId(1)])
  \/ \E d \in FaultPayloads : PageAdd(1, d)
  \/ \E d \in FaultPayloads : PageRemove(1, d)
  \/ \E d \in FaultPayloads : PageUpdate(1, d)
  \/ \E d \in FaultPayloads : PageSelect(1, d)
  \/ \E d \in FaultJoins : PageRequestSync(1, d)
  \/ \E d \in CompletePayloads, g \in FaultStages : PageAddFails(1, d, g)
  \/ \E d \in CompletePayloads, g \in FaultStages : PageRemoveFails(1, d, g)
  \/ \E d \in CompletePayloads, g \in FaultStages : PageUpdateFails(1, d, g)
  \/ \E d \in FaultJoins : PageRequestSyncFails(1, d)

SpecPageFaults == InitPages /\ [][NextPageFaults]_vars

StoreFailed == "failed" \in DOMAIN last

\* C19: when a persistence call fails during page:add, page:remove,
\* page:update or page:request-sync, one error event goes to the emitting
\* connection, nothing goes to any other connection, and the connection
\* stays established.
C19_FailureIsLocal ==
  StoreFailed =>
    /\ \E m \in out : out = {m} /\ m.to = last.sock /\ m.ev = "error"
    /\ Established(last.sock)
C19_Witness ==
  /\ StoreFailed /\ last.ev = "page:remove" /\ last.failed = "promote"
  /\ \E b \in SocketIds \ {last.sock} : InPageRoomOf(b, last.data.projectId)
  /\ InPageRoomOf(last.sock, last.data.projectId)

PageEvents == {"page:add", "page:remove", "page:update", "page:select",
               "page:request-sync"}
\* the payload of the step's event lacks a field the event requires
MissingField(ev, data) ==
  \/ data.projectId = Absent
  \/ ev \in {"page:add", "page:remove", "page:update", "page:select"}
       /\ data.pageId = Absent
  \/ ev = "page:add" /\ data.pageName = Absent
C20_IncompleteStep ==
  (last'.ev \in PageEvents /\ MissingField(last'.ev, last'.data)) =>
    /\ \E m \in out' : out' = {m} /\ m.to = last'.sock /\ m.ev = "error"
    /\ UNCHANGED <<pages, clientPages, rooms, sockets, activeUsers>>
\* C20: a page:add, page:remove, page:update, page:select or
\* page:request-sync whose payload lacks a required field produces a single
\* error event to the emitting connection, mutates no state, broadcasts
\* nothing and leaves the connection open.
C20_IncompleteRejected == [][C20_IncompleteStep]_vars

(***************************************************************************)
(* Page rules (SpecPageRules): one connection of the owner adds, removes   *)
(* and updates pages of p1, over one page id more than NumPageIds, so that *)
(* a project can hold a deleted page and two live ones.                    *)
(***************************************************************************)
RulePageIds == {"pg" \o ToString(i) : i \in 1..(NumPageIds + 1)}
RulePayloads ==
  [projectId : {ProjectId(1)}, pageId : RulePageIds, pageName : {"Home"},
   html : {Absent}, isDefault : BOOLEAN]
RenamePayloads ==
  [projectId : {ProjectId(1)}, pageId : {"pg1"}, pageName : {"Inicio"},
   html : {"<p>"}, isDefault : {FALSE}]

NextPageRules ==
  \/ Connect(1, OwnerHandshake)
  \/ \E d \in RulePayloads \cup RenamePayloads : PageAdd(1, d)
  \/ \E d \in RulePayloads : PageRemove(1, d)
  \/ \E d \in RenamePayloads : PageUpdate(1, d)

SpecPageRules == InitPages /\ [][NextPageRules]_vars

\* the step handles a socket event of the given name with a complete payload
PageEventStep(ev) ==
  /\ last'.ev = ev
  /\ "failed" \notin DOMAIN last'
  /\ last'.data.projectId # Absent /\ last'.data.pageId # Absent
\* the rows of the event's clientId in the event's project
TargetRows(pgs) == RowsOfClientId(pgs, last'.data.projectId, last'.data.pageId)

C27_AddDefaultStep ==
  (/\ PageEventStep("page:add") /\ last'.data.pageName # Absent
   /\ last'.data.isDefault
   /\ TargetRows(pages) = {}
   /\ DefaultPages(pages, last'.data.projectId) # {}) =>
     /\ DefaultPages(pages', last'.data.projectId) = TargetRows(pages')
     /\ Cardinality(TargetRows(pages')) = 1
     /\ \A i \in DefaultPages(pages, last'.data.projectId) :
           ~pages'[i].isDefault /\ ~pages'[i].isDeleted
\* C27: a page:add with isDefault = true on a project that has a default
\* page ends with the new page as the only non-deleted default page; the
\* previous default's isDefault is false and both pages are non-deleted.
C27_NewDefaultReplacesOld == [][C27_AddDefaultStep]_vars

Flags(pgs) == [i \in PageRowIds(pgs) |-> pgs[i].isDefault]
C28_RemoveStep ==
  /\ (/\ PageEventStep("page:remove")
      /\ \E i \in TargetRows(pages) :
            /\ i \in DefaultPages(pages, last'.data.projectId)
            /\ DefaultPages(pages, last'.data.projectId) = {i}
            /\ LivePages(pages, last'.data.projectId) # {i}) =>
        /\ \A i \in TargetRows(pages) : pages'[i].isDeleted
        /\ Cardinality(DefaultPages(pages', last'.data.projectId)) = 1
  /\ (/\ PageEventStep("page:remove")
      /\ \E i \in TargetRows(pages) : pages[i].isDeleted) =>
        Flags(pages') = Flags(pages)
\* C28: a page:remove of the default page of a project with another
\* non-deleted page marks it deleted and leaves exactly one remaining
\* non-deleted page flagged default; a page:remove naming an already deleted
\* page changes no page's isDefault flag.
C28_RemoveReassignsDefault == [][C28_RemoveStep]_vars

C29_AddExistingStep ==
  /\ (/\ PageEventStep("page:add") /\ last'.data.pageName # Absent
      /\ \E i \in TargetRows(pages) : pages[i].isDeleted) =>
        /\ Len(pages') = Len(pages)
        /\ \A i \in TargetRows(pages) :
              /\ ~pages'[i].isDeleted
              /\ pages'[i].name = last'.data.pageName
        /\ \A m \in out' : m.ev # "error"
  /\ (/\ PageEventStep("page:add") /\ last'.data.pageName # Absent
      /\ \E i \in TargetRows(pages) : ~pages[i].isDeleted) =>
        Len(pages') = Len(pages)
\* C29: a page:add whose clientId matches a soft-deleted page of the project
\* restores that page and updates its name and content, with no second row
\* and no error; one whose clientId matches a non-deleted page creates no row.
C29_AddRestoresDeleted == [][C29_AddExistingStep]_vars

(***************************************************************************)
(* Page sync (SpecSync): connection A = 1 adds and removes pages of p1 and *)
(* adds a page to another project, and asks for syncs; connection B = 2 is *)
(* in the page room of p1.                                                 *)
(***************************************************************************)
SyncPageIds == {"pg1", "pg2", "pg" \o ToString(NumPageIds + 1)}
SyncPayloads ==
  [projectId : {ProjectId(1)}, pageId : SyncPageIds, pageName : {"Home"},
   html : {Absent}, isDefault : {FALSE}]
    \cup [projectId : {ProjectId(NumProjects)}, pageId : {"pg1"}, pageName : {"Otra"},
          html : {Absent}, isDefault : {FALSE}]
SyncRemovals == {d \in SyncPayloads : d.projectId = ProjectId(1) /\ d.pageId = "pg1"}

NextSync ==
  \/ \E s \in RoomSockets : Connect(s, OwnerHandshake)
  \/ JoinProject(2, [projectId |-> ProjectId(1)])
  \/ \E d \in SyncPayloads : PageAdd(1, d)
  \/ \E d \in SyncRemovals : PageRemove(1, d)
  \/ \E d \in JoinPayloads : PageRequestSync(1, d)

SpecSync == InitPages /\ [][NextSync]_vars

\* the k-th live page of the project, in creation order
NthLive(projectId, k) ==
  CHOOSE i \in LivePages(pages, projectId) :
    Cardinality({j \in LivePages(pages, projectId) : j < i}) = k - 1
SyncAnswer(projectId, m) ==
  /\ m.ev = "page:full-sync"
  /\ Len(m.data.pages) = Cardinality(LivePages(pages, projectId))
  /\ \A k \in 1..Len(m.data.pages) :
        /\ m.data.pages[k].id = pages[NthLive(projectId, k)].clientId
        /\ m.data.pages[k].name = pages[NthLive(projectId, k)].name
        /\ m.data.pages[k].html = pages[NthLive(projectId, k)].html
        /\ m.data.pages[k].isDefault = pages[NthLive(projectId, k)].isDefault
C30_SyncStep ==
  (last'.ev = "page:request-sync" /\ "failed" \notin DOMAIN last'
     /\ last'.data.projectId # Absent) =>
    /\ pages' = pages
    /\ \E m \in out' : out' = {m} /\ m.to = last'.sock
                        /\ SyncAnswer(last'.data.projectId, m)
\* C30: a page:request-sync for project P answers the requesting connection
\* only, with a full-sync listing exactly the non-deleted pages of P in
\* ascending creation order, each identified by its clientId; nobody else
\* receives anything and no Page row changes.
C30_SyncListsLivePages == [][C30_SyncStep]_vars
C30_Witness ==
  /\ last.ev = "page:request-sync" /\ last.data.projectId = ProjectId(1)
  /\ \E m \in out : Len(m.data.pages) = 2
  /\ \E i \in PageRowIds(pages) : pages[i].isDeleted /\ pages[i].projectId = ProjectId(1)
  /\ \E i \in PageRowIds(pages) : pages[i].projectId # ProjectId(1)
  /\ InPageRoomOf(2, ProjectId(1))


(***************************************************************************)
(* REST pages router (/api/pages), behind the bearer-token middleware.     *)
(* The permission checks of its handlers are commented out in the source:  *)
(* every handler runs with `const hasAccess = true`.                       *)
(***************************************************************************)
RestPageStep(route, request) ==
  /\ last' = [ev |-> route, sock |-> 0, data |-> request]
  /\ UNCHANGED <<build, inflight, projects, permissions, versions, clock, issued, sockets,
                 activeUsers, rooms, clientPages, membership, present, pageJoins>>

\* findMany({ where: { projectId, isDeleted: false }, orderBy: { createdAt: 'asc' } })
ListRows(pgs, projectId) ==
  SelectSeq(pgs, LAMBDA row : ~row.isDeleted /\ row.projectId = projectId)

\* router.get('/')
RestListPages(userId, projectId) ==
  /\ RestPageStep("GET /pages", [userId |-> userId, projectId |-> projectId])
  /\ pages' = pages
  /\ IF projectId = Absent
     THEN Reply(400, "Se requiere el ID del proyecto")
     ELSE Reply(200, ListRows(pages, projectId))

\* updateMany({ where: { projectId, isDefault: true, isDeleted: false },
\*              data: { isDefault: false } })
ClearDefaults(pgs, projectId) ==
  [i \in PageRowIds(pgs) |->
     IF pgs[i].projectId = projectId /\ pgs[i].isDefault /\ ~pgs[i].isDeleted
     THEN [pgs[i] EXCEPT !.isDefault = FALSE]
     ELSE pgs[i]]

\* router.post('/'): the bulk update and the create are separate statements,
\* so a create the store refuses leaves the defaults cleared
RestCreatePage(userId, body) ==
  /\ RestPageStep("POST /pages", [userId |-> userId, body |-> body])
  /\ IF body.projectId = Absent \/ body.name = Absent \/ body.clientId = Absent
     THEN Reply(400, "Se requieren projectId, name y clientId") /\ pages' = pages
     ELSE IF \E i \in LivePages(pages, body.projectId) : pages[i].clientId = body.clientId
     THEN Reply(409, "Ya existe una página con este ID en el proyecto") /\ pages' = pages
     ELSE LET cleared == IF body.isDefault THEN ClearDefaults(pages, body.projectId)
                                           ELSE pages
              row == [clientId |-> body.clientId, projectId |-> body.projectId,
                      name |-> body.name, html |-> Absent,
                      isDefault |-> body.isDefault, isDeleted |-> FALSE]
          IN IF CreateRefused(pages, body.projectId, body.clientId)
             THEN Reply(500, "Error al crear página") /\ pages' = cleared
             ELSE Reply(201, row) /\ pages' = Append(cleared, row)

\* mutant: the restore also resets the default flag of the row
RestRestorePage_Reset(userId, id) ==
  /\ RestPageStep("POST /pages/restore/:id", [userId |-> userId, id |-> id])
  /\ IF id \notin PageRowIds(pages)
     THEN Reply(404, "Página no encontrada") /\ pages' = pages
     ELSE /\ pages' = [pages EXCEPT ![id].isDeleted = FALSE, ![id].isDefault = FALSE]
          /\ Reply(200, pages'[id])

\* router.post('/restore/:id')
RestRestorePage(userId, id) ==
  /\ RestPageStep("POST /pages/restore/:id", [userId |-> userId, id |-> id])
  /\ IF id \notin PageRowIds(pages)
     THEN Reply(404, "Página no encontrada") /\ pages' = pages
     ELSE /\ pages' = [pages EXCEPT ![id].isDeleted = FALSE]
          /\ Reply(200, pages'[id])

\* REST pages (SpecRestPages): the owner u1 of p1 and a user without any
\* permission on p1 create, list, delete and restore pages.
RestPageIds == {"pg1", "pg2"}
RestPageBodies ==
  [projectId : {ProjectId(1), UnknownProject}, name : {"Home"},
   clientId : RestPageIds, isDefault : BOOLEAN]
     \cup [projectId : {ProjectId(1)}, name : {Absent},
           clientId : {"pg1"}, isDefault : {FALSE}]
ListProjects == {ProjectId(1), UnknownProject, Absent}

NextRestPages ==
  \/ \E u \in Callers, b \in RestPageBodies : RestCreatePage(u, b)
  \/ \E u \in Callers, p \in ListProjects : RestListPages(u, p)
  \/ \E id \in 1..(Len(pages) + 1) : RestDeletePage(id)
  \/ \E u \in Callers, id \in 1..(Len(pages) + 1) : RestRestorePage(u, id)

SpecRestPages == InitRest /\ [][NextRestPages]_vars

\* the rows a list request for the project of row `id' answers with
Listed(pgs, id) ==
  {ListRows(pgs, pgs[id].projectId)[k] : k \in 1..Len(ListRows(pgs, pgs[id].projectId))}

DeleteStep(id) ==
  /\ id \in PageRowIds(pages)
  /\ last'.ev = "DELETE /pages/:id" /\ last'.data.id = id
RestoreStep(id) ==
  /\ id \in PageRowIds(pages)
  /\ last'.ev = "POST /pages/restore/:id" /\ last'.data.id = id
AnsweredNext(status) ==
  {m.data.status : m \in {x \in out' : x.ev = "http"}} = {status}

\* C23 as stated: DELETE of any existing page answers success and the page
\* leaves the list.  Refuted: the only live page of a project, when it is the
\* default page, is kept and the request is answered 400.
C23_DeleteStep ==
  \A id \in 1..2 :
    DeleteStep(id) => AnsweredNext(200) /\ pages'[id].isDeleted
C23_DeleteRestoreStep ==
  \A id \in 1..2 :
    /\ DeleteStep(id) /\ ~RemovalRefused(pages, id)
         => /\ AnsweredNext(200)
            /\ pages'[id] = [pages[id] EXCEPT !.isDeleted = TRUE]
            /\ pages'[id] \notin Listed(pages', id)
    /\ DeleteStep(id) /\ RemovalRefused(pages, id)
         => AnsweredNext(400) /\ pages' = pages
    /\ RestoreStep(id)
         => /\ AnsweredNext(200)
            /\ pages'[id] = [pages[id] EXCEPT !.isDeleted = FALSE]
            /\ pages'[id] \in Listed(pages', id)
            /\ \A j \in PageRowIds(pages) \ {id} : pages'[j] = pages[j]
C24_ListRefused ==
  (/\ last.ev = "GET /pages"
   /\ ProjectExists(last.data.projectId)
   /\ ~hasAccess(last.data.projectId, last.data.userId))
    => Status = {403}


(***************************************************************************)
(* Bearer-token middleware of the REST routes.  A header is its scheme and *)
(* its token: `Authorization: Bearer <token>`.                             *)
(***************************************************************************)
AuthHeader(scheme, token) == [scheme |-> scheme, token |-> token]

\* mutant: the token is decoded without verifying its signature
authMiddleware_Decode(header) ==
  IF header.scheme # "Bearer"
  THEN [status |-> 401, error |-> "No token provided"]
  ELSE [status |-> 200, id |-> TokenUser(header.token).id]

\* authMiddleware: the 401 it answers, or the user it puts in req.user
authMiddleware(header) ==
  IF header.scheme # "Bearer"
  THEN [status |-> 401, error |-> "No token provided"]
  ELSE IF ~TokenVerifies(header.token)
  THEN [status |-> 401, error |-> "Invalid token"]
  ELSE [status |-> 200, id |-> TokenUser(header.token).id]

\* return res.status(401).json({ error }): next() is not called
Refuse401(route, header) ==
  /\ RestStep(route, [header |-> header])
  /\ Reply(401, authMiddleware(header).error)
  /\ UNCHANGED <<projects, permissions, versions, clock, issued>>

\* router.post('/lock', authMiddleware, ...)
AuthLock(header, projectId) ==
  IF authMiddleware(header).status = 401
  THEN Refuse401("POST /lock", header)
  ELSE RestLock(authMiddleware(header).id, projectId)

\* router.post('/unlock', authMiddleware, ...)
AuthUnlock(header, projectId) ==
  IF authMiddleware(header).status = 401
  THEN Refuse401("POST /unlock", header)
  ELSE RestUnlock(authMiddleware(header).id, projectId)

\* router.post('/', authMiddleware, ...) of the permissions router
AuthUpsertPermission(header, projectId, target, permission) ==
  IF authMiddleware(header).status = 401
  THEN Refuse401("POST /permissions", header)
  ELSE RestUpsertPermission(authMiddleware(header).id, projectId, target, permission)

\* router.delete('/:userId', authMiddleware, ...) of the permissions router
AuthDeletePermission(header, projectId, target) ==
  IF authMiddleware(header).status = 401
  THEN Refuse401("DELETE /permissions/:userId", header)
  ELSE RestDeletePermission(authMiddleware(header).id, projectId, target)

\* Authentication (SpecAuth): requests with no header, another scheme, an
\* empty, a forged or a valid bearer token.
AuthHeaders ==
  {AuthHeader(Absent, Absent), AuthHeader("Basic", GoodToken(UserId(1))),
   AuthHeader("Bearer", Absent), AuthHeader("Bearer", BadToken)}
    \cup {AuthHeader("Bearer", GoodToken(u)) : u \in Callers}

NextAuth ==
  \/ Tick
  \/ \E h \in AuthHeaders, p \in RestProjects : AuthLock(h, p)
  \/ \E h \in AuthHeaders, p \in RestProjects : AuthUnlock(h, p)
  \/ \E h \in AuthHeaders, t \in Callers, v \in PermissionValues :
        AuthUpsertPermission(h, ProjectId(1), t, v)
  \/ \E h \in AuthHeaders, t \in Callers : AuthDeletePermission(h, ProjectId(1), t)

SpecAuth == InitRest /\ [][NextAuth]_vars

\* the request carries no bearer token, or one jwt.verify refuses
Unauthenticated(header) == header.scheme # "Bearer" \/ header.token \notin ValidTokens

ProtectedRequest(header) ==
  \/ \E p \in RestProjects : AuthLock(header, p) \/ AuthUnlock(header, p)
  \/ \E t \in Callers, v \in PermissionValues :
        AuthUpsertPermission(header, ProjectId(1), t, v)
  \/ \E t \in Callers : AuthDeletePermission(header, ProjectId(1), t)

\* C22: a request to a protected endpoint without a bearer token, or with an
\* invalid one, is answered 401 and changes no stored state.
C22_UnauthenticatedStep ==
  \A h \in AuthHeaders :
    (Unauthenticated(h) /\ ProtectedRequest(h))
      => AnsweredNext(401) /\ UNCHANGED <<projects, permissions, versions, pages>>
C22_Unauthenticated401 == [][C22_UnauthenticatedStep]_vars

\* a forged token was refused while the project was locked by its owner
C22_Witness ==
  /\ last.ev = "POST /unlock" /\ Status = {401}
  /\ last.data.header = AuthHeader("Bearer", BadToken)
  /\ projects[ProjectId(1)].lockedById = UserId(1)


(***************************************************************************)
(* Handlers at their awaits.  A handler that awaits a store call is        *)
(* suspended there while other requests run; `inflight' holds, per         *)
(* suspended handler, what it read so far.                                 *)
(***************************************************************************)
Suspend(key, held) ==
  inflight' = [k \in DOMAIN inflight \cup {key} |-> IF k = key THEN held ELSE inflight[k]]
Resume(key) == inflight' = [k \in DOMAIN inflight \ {key} |-> inflight[k]]
Suspended(key, route) == key \in DOMAIN inflight /\ inflight[key].route = route

RaceStep(ev, request) ==
  /\ last' = [ev |-> ev, sock |-> 0, data |-> request]
  /\ UNCHANGED <<build, pages, sockets, activeUsers, rooms, clientPages, membership,
                 present, pageJoins, permissions, versions, clock, issued>>

\* what findUnique answers for an id without a row (null)
NoProject == ProjectRow(Absent, Absent, Absent)

\* await prisma.project.findUnique({ where: { id }, include: { permissions: true } })
\* of the lock and unlock handlers: the handler keeps the row it read
ProjectRead(userId, projectId, route) ==
  /\ userId \notin DOMAIN inflight
  /\ RaceStep(route \o " findUnique", [userId |-> userId, projectId |-> projectId])
  /\ Suspend(userId, [route |-> route, projectId |-> projectId,
                      found |-> ProjectExists(projectId),
                      project |-> IF ProjectExists(projectId) THEN projects[projectId]
                                                              ELSE NoProject,
                      permissions |-> PermissionsOf(projectId)])
  /\ out' = {}
  /\ projects' = projects

\* canWrite, computed from the row and the permissions the handler read
readCanWrite(held, userId) ==
  \/ held.project.ownerId = userId
  \/ \E p \in held.permissions : p.userId = userId /\ p.permission = "write"

\* router.post('/lock'), up to its first await
LockRead(userId, projectId) == ProjectRead(userId, projectId, "POST /lock")

\* router.post('/lock'), from the row it read to its response
LockWrite(userId) ==
  /\ Suspended(userId, "POST /lock")
  /\ RaceStep("POST /lock", [userId |-> userId, projectId |-> inflight[userId].projectId])
  /\ Resume(userId)
  /\ LET held == inflight[userId]
     IN IF ~held.found
        THEN Reply(404, "Not found") /\ projects' = projects
        ELSE IF ~readCanWrite(held, userId)
        THEN Reply(403, "Forbidden") /\ projects' = projects
        ELSE IF held.project.lockedById # Absent /\ held.project.lockedById # userId
        THEN Reply(409, "Project is already locked by another user")
             /\ projects' = projects
        ELSE /\ projects' = [projects EXCEPT ![held.projectId].lockedById = userId,
                                             ![held.projectId].lockedAt = Now]
             /\ Reply(200, [isLocked |-> TRUE])

\* router.post('/unlock'), up to its first await
UnlockRead(userId, projectId) == ProjectRead(userId, projectId, "POST /unlock")

\* router.post('/unlock'), from the row it read to its response
UnlockWrite(userId) ==
  /\ Suspended(userId, "POST /unlock")
  /\ RaceStep("POST /unlock", [userId |-> userId, projectId |-> inflight[userId].projectId])
  /\ Resume(userId)
  /\ LET held == inflight[userId]
     IN IF ~held.found
        THEN Reply(404, "Not found") /\ projects' = projects
        ELSE IF ~readCanWrite(held, userId)
        THEN Reply(403, "Forbidden") /\ projects' = projects
        ELSE IF held.project.lockedById = Absent \/ held.project.lockedById # userId
        THEN Reply(409, "You do not hold the lock") /\ projects' = projects
        ELSE /\ projects' = [projects EXCEPT ![held.projectId].lockedById = Absent,
                                             ![held.projectId].lockedAt = Absent]
             /\ Reply(200, [isLocked |-> FALSE])

\* Concurrent locking (SpecLockRace): the owner u1 and a collaborator with a
\* 'write' row send lock and unlock requests for p1 that overlap in time.
InitLockRace ==
  /\ InitProcess
  /\ build = "collab+pages"
  /\ projects = [q \in {ProjectId(1)} |-> ProjectRow(UserId(1), "none", Absent)]
  /\ permissions = {PermissionRow(ProjectId(1), UserId(1), "write"),
                    PermissionRow(ProjectId(1), UserId(NumUsers), "write")}
  /\ pages = << >>

NextLockRace ==
  \/ Tick
  \/ \E u \in Users, p \in RestProjects : LockRead(u, p)
  \/ \E u \in Users : LockWrite(u)
  \/ \E u \in Users, p \in RestProjects : UnlockRead(u, p)
  \/ \E u \in Users : UnlockWrite(u)

SpecLockRace == InitLockRace /\ [][NextLockRace]_vars

\* C26: the lock is exclusive under every interleaving.  A user is answered
\* 200 to a lock request only when the lock field is empty or the user's own:
\* the field holds user A exactly when A's latest successful lock has not been
\* followed by A's successful unlock or by another user's successful lock.
\* Refuted: two lock handlers that both read the unlocked row both answer 200.
C26_LockStep ==
  (/\ last'.ev = "POST /lock"
   /\ AnsweredNext(200))
    => projects[last'.data.projectId].lockedById \in {Absent, last'.data.userId}
C26_LockExclusive == [][C26_LockStep]_vars


(***************************************************************************)
(* Page socket handlers at their awaits.  A step runs one store call of a  *)
(* handler and the synchronous code after it, up to the next store call;   *)
(* between two steps of a handler the handlers of other connections run.   *)
(* A suspended handler holds its payload, the row findFirst returned       *)
(* (`page', 0 for null, with `isDefault' as read) and the call it is at.   *)
(***************************************************************************)
\* a handler is the connection it runs for and its place among the handlers
\* of that connection that are under way
Handler(s, n) == <<s, n>>
Sock(h) == h[1]

PageAwaitStep(h, ev, call) ==
  /\ last' = [ev |-> ev, sock |-> Sock(h), data |-> [call |-> call, handler |-> h]]
  /\ UNCHANGED <<build, projects, permissions, versions, clock, issued, activeUsers,
                 membership, present, rooms, sockets, pageJoins>>

Held(ev, data, page, at) ==
  [route |-> ev, data |-> data, page |-> page,
   isDefault |-> IF page = 0 THEN FALSE ELSE pages[page].isDefault,
   pick |-> 0, at |-> at]
At(s, ev, at) == Suspended(s, ev) /\ inflight[s].at = at
MoveTo(s, at) == inflight' = [inflight EXCEPT ![s].at = at]

\* findFirst({ where: { projectId, clientId, isDeleted: false } }): the row, or 0
FindLive(pgs, data) ==
  LET found == RowsOfClientId(pgs, data.projectId, data.pageId)
                 \cap LivePages(pgs, data.projectId)
  IN IF found = {} THEN 0 ELSE CHOOSE i \in found : TRUE
\* findFirst({ where: { projectId, clientId } }): the row, or 0
FindAny(pgs, data) ==
  LET found == RowsOfClientId(pgs, data.projectId, data.pageId)
  IN IF found = {} THEN 0 ELSE CHOOSE i \in found : TRUE

\* the end of a handler: socket.to(`project:${projectId}`).emit(ev, data)
Forward(s, ev, data) ==
  out' = Deliver(SocketTo(rooms, s, PageRoom(data.projectId)), ev, data)
Own(s, data) == ClientKey(s, data.projectId)

\* page:add, through findFirst; an existing page ends the handler
PageAddFind(h, data) ==
  /\ Established(Sock(h)) /\ PagesBuild /\ h \notin DOMAIN inflight
  /\ PageAwaitStep(h, "page:add", "findFirst")
  /\ pages' = pages
  /\ IF FindLive(pages, data) = 0
     THEN /\ Suspend(h, Held("page:add", data, 0, "create"))
          /\ out' = {} /\ clientPages' = clientPages
     ELSE /\ inflight' = inflight
          /\ clientPages' = ClientPagesSet(Own(Sock(h), data), ClientSet(Own(Sock(h), data)) \cup {data.pageId})
          /\ Forward(Sock(h), "page:add", data)

\* page:add, prisma.page.create and the end of the handler
PageAddCreate(h) ==
  /\ At(h, "page:add", "create")
  /\ PageAwaitStep(h, "page:add", "create")
  /\ Resume(h)
  /\ LET data == inflight[h].data
     IN IF CreateRefused(pages, data.projectId, data.pageId)
        THEN /\ out' = ErrorTo(Sock(h), "Error al agregar pagina")
             /\ UNCHANGED <<pages, clientPages>>
        ELSE /\ pages' = Append(pages, NewPage(data))
             /\ clientPages' = ClientPagesSet(Own(Sock(h), data),
                                 ClientSet(Own(Sock(h), data)) \cup {data.pageId})
             /\ Forward(Sock(h), "page:add", data)

\* the end of page:remove: pageSet.delete(pageId) when the set exists
RemoveEnds(s, data) ==
  /\ clientPages' = IF Own(s, data) \in DOMAIN clientPages
                    THEN ClientPagesSet(Own(s, data), ClientSet(Own(s, data)) \ {data.pageId})
                    ELSE clientPages
  /\ Forward(s, "page:remove", data)

\* page:remove, through findFirst; no row ends the handler
PageRemoveFind(h, data) ==
  /\ Established(Sock(h)) /\ PagesBuild /\ h \notin DOMAIN inflight
  /\ PageAwaitStep(h, "page:remove", "findFirst")
  /\ pages' = pages
  /\ LET page == FindAny(pages, data)
     IN IF page = 0
        THEN inflight' = inflight /\ RemoveEnds(Sock(h), data)
        ELSE /\ Suspend(h, Held("page:remove", data, page,
                             IF pages[page].isDefault THEN "count" ELSE "softDelete"))
             /\ out' = {} /\ clientPages' = clientPages

\* page:remove, prisma.page.count of the live pages
PageRemoveCount(h) ==
  /\ At(h, "page:remove", "count")
  /\ PageAwaitStep(h, "page:remove", "count")
  /\ UNCHANGED <<pages, clientPages>>
  /\ IF PageCount(pages, inflight[h].data.projectId) <= 1
     THEN /\ Resume(h)
          /\ out' = ErrorTo(Sock(h), "No se puede eliminar la unica pagina del proyecto")
     ELSE MoveTo(h, "softDelete") /\ out' = {}

\* page:remove, prisma.page.update({ data: { isDeleted: true } })
PageRemoveSoftDelete(h) ==
  /\ At(h, "page:remove", "softDelete")
  /\ PageAwaitStep(h, "page:remove", "softDelete")
  /\ pages' = SoftDelete(pages, inflight[h].page)
  /\ IF inflight[h].isDefault
     THEN MoveTo(h, "pick") /\ out' = {} /\ clientPages' = clientPages
     ELSE Resume(h) /\ RemoveEnds(Sock(h), inflight[h].data)

\* page:remove, findFirst of another live page (any of them: no orderBy)
PageRemovePick(h) ==
  /\ At(h, "page:remove", "pick")
  /\ PageAwaitStep(h, "page:remove", "pick")
  /\ pages' = pages
  /\ LET data == inflight[h].data
         others == {i \in LivePages(pages, data.projectId) : pages[i].clientId # data.pageId}
     IN IF others = {}
        THEN Resume(h) /\ RemoveEnds(Sock(h), data)
        ELSE /\ \E pick \in others :
                  inflight' = [inflight EXCEPT ![h].pick = pick, ![h].at = "setDefault"]
             /\ out' = {} /\ clientPages' = clientPages

\* page:remove, prisma.page.update({ data: { isDefault: true } })
PageRemoveSetDefault(h) ==
  /\ At(h, "page:remove", "setDefault")
  /\ PageAwaitStep(h, "page:remove", "setDefault")
  /\ pages' = [pages EXCEPT ![inflight[h].pick].isDefault = TRUE]
  /\ Resume(h)
  /\ RemoveEnds(Sock(h), inflight[h].data)

\* page:update, through findFirst; no live row ends the handler
PageUpdateFind(h, data) ==
  /\ Established(Sock(h)) /\ PagesBuild /\ h \notin DOMAIN inflight
  /\ PageAwaitStep(h, "page:update", "findFirst")
  /\ UNCHANGED <<pages, clientPages>>
  /\ LET page == FindLive(pages, data)
     IN IF page = 0
        THEN inflight' = inflight /\ Forward(Sock(h), "page:update", data)
        ELSE /\ Suspend(h, Held("page:update", data, page,
                             IF data.isDefault THEN "updateMany" ELSE "update"))
             /\ out' = {}

\* page:update, prisma.page.updateMany clearing the other live defaults
PageUpdateClear(h) ==
  /\ At(h, "page:update", "updateMany")
  /\ PageAwaitStep(h, "page:update", "updateMany")
  /\ pages' = ClearOtherDefaults(pages, inflight[h].data.projectId, inflight[h].page)
  /\ MoveTo(h, "update")
  /\ out' = {} /\ clientPages' = clientPages

\* page:update, prisma.page.update of the row and the end of the handler
PageUpdateStore(h) ==
  /\ At(h, "page:update", "update")
  /\ PageAwaitStep(h, "page:update", "update")
  /\ pages' = [pages EXCEPT ![inflight[h].page] = UpdatedRow(@, inflight[h].data)]
  /\ Resume(h)
  /\ clientPages' = clientPages
  /\ Forward(Sock(h), "page:update", inflight[h].data)

\* Concurrent page handlers (SpecPageRace): two connections of the owner of
\* p1 add pages that are not flagged default, and update and remove them; no
\* page:add carries isDefault, so that two defaults can only come from an
\* update or a removal.
RacePageIds == {"pg1", "pg2"}
RaceAdds ==
  [projectId : {ProjectId(1)}, pageId : RacePageIds, pageName : {"Home"},
   html : {Absent}, isDefault : {FALSE}]
RaceUpdates ==
  [projectId : {ProjectId(1)}, pageId : RacePageIds, pageName : {Absent},
   html : {Absent}, isDefault : {TRUE}]
RaceSockets == {1, 2}

NextPageRace ==
  \/ \E s \in RaceSockets : Connect(s, OwnerHandshake)
  \/ \E s \in RaceSockets, d \in RaceAdds : PageAddFind(Handler(s, 1), d)
  \/ \E s \in RaceSockets : PageAddCreate(Handler(s, 1))
  \/ \E s \in RaceSockets, d \in RaceAdds : PageRemoveFind(Handler(s, 1), d)
  \/ \E s \in RaceSockets : PageRemoveCount(Handler(s, 1))
  \/ \E s \in RaceSockets : PageRemoveSoftDelete(Handler(s, 1))
  \/ \E s \in RaceSockets : PageRemovePick(Handler(s, 1))
  \/ \E s \in RaceSockets : PageRemoveSetDefault(Handler(s, 1))
  \/ \E s \in RaceSockets, d \in RaceUpdates : PageUpdateFind(Handler(s, 1), d)
  \/ \E s \in RaceSockets : PageUpdateClear(Handler(s, 1))
  \/ \E s \in RaceSockets : PageUpdateStore(Handler(s, 1))

SpecPageRace == InitPages /\ [][NextPageRace]_vars

\* C25: once every handler has completed, the project has at most one live
\* page flagged default.  Refuted: two page:update handlers that both run
\* their updateMany before either flags its own page leave two defaults.
C25_AtMostOneDefault ==
  (DOMAIN inflight = {}) => Cardinality(DefaultPages(pages, ProjectId(1))) <= 1


(***************************************************************************)
(* Events emitted without a payload.  socket.io calls the handler with     *)
(* `undefined' (no argument) or `null'.  Reading a property of either      *)
(* throws a TypeError; optional chaining (`x?.p') and passing the value on *)
(* do not.  A TypeError thrown in an async handler outside its try block   *)
(* rejects the promise nobody awaits; thrown in a plain handler it leaves  *)
(* the listener.  Neither is caught by socket.io, and the source registers *)
(* no process-level handler; what the process does next is not modelled.   *)
(***************************************************************************)
Null == "null"
AbsentPayloads == {Absent, Null}

\* the receiver of a fault no handler caught
HostProcess == 0 - 1
Escapes(kind, ev) == {[to |-> HostProcess, ev |-> kind, data |-> [handler |-> ev]]}

\* the events whose handler takes a payload, per build
PayloadEvents ==
  IF build = "collab+pages"
  THEN {"editor:full-update", "editor:change", "cursor:move", "join:project",
        "page:request-sync", "page:add", "page:remove", "page:update", "page:select"}
  ELSE {"editor:full-update", "chat:message"}

\* how the handler of `ev' reads a payload that is undefined or null:
\*   fullUpdateData?.components, changeData?.type, position     -> relayed
\*   data.message (chat:message), const { projectId } = data
\*     (page:select), both in plain handlers                    -> throws
\*   const { projectId, ... } = data before the try of the
\*     async handlers                                           -> rejects
OnAbsent(ev) ==
  IF ev \in {"editor:full-update", "editor:change", "cursor:move"} THEN "relay"
  ELSE IF ev = "chat:message" \/ ev = "page:select" THEN "uncaughtException"
  ELSE "unhandledRejection"

RelayField(ev) ==
  IF ev = "editor:full-update" THEN "data"
  ELSE IF ev = "editor:change" THEN "change" ELSE "position"

\* a connection emits `ev' with no payload
AbsentPayload(s, ev, payload) ==
  /\ Established(s)
  /\ ev \in PayloadEvents
  /\ last' = [ev |-> ev, sock |-> s, data |-> payload]
  /\ UNCHANGED <<build, inflight, projects, permissions, versions, clock, issued, pages,
                 sockets, activeUsers, rooms, clientPages, membership, present, pageJoins>>
  /\ out' = IF OnAbsent(ev) = "relay"
            THEN Deliver(SocketTo(rooms, s, CollabRoom(sockets[s].projectId)), ev,
                         Envelope(s, RelayField(ev), payload))
            ELSE Escapes(OnAbsent(ev), ev)

AllPayloadEvents ==
  {"editor:full-update", "editor:change", "cursor:move", "chat:message", "join:project",
   "page:request-sync", "page:add", "page:remove", "page:update", "page:select"}

\* Absent payloads (SpecAbsent): the relay's events with a payload, and every
\* event without one.
NextAbsent ==
  \/ NextRelay
  \/ \E s \in SocketIds, ev \in AllPayloadEvents, d \in AbsentPayloads :
        AbsentPayload(s, ev, d)

SpecAbsent == InitRelay /\ [][NextAbsent]_vars

\* C21: no inbound event, whatever its payload, ends as a fault outside its
\* handler.  Refuted: chat:message, page:select, join:project,
\* page:request-sync, page:add, page:remove and page:update read a property
\* of the payload outside any try block.
C21_NoFaultEscapes ==
  \A m \in out : m.ev \notin {"uncaughtException", "unhandledRejection"}


\* C38: whenever a project is locked by user U, an unlock request by U is
\* answered 200 and clears the lock, also after U's permission row was removed
\* or downgraded to 'read'.  Refuted: the unlock handler checks canWrite before
\* it looks at the lock, so a holder without a 'write' row is answered 403 and
\* the lock stays.
C38_HolderUnlockStep ==
  (/\ last'.ev = "POST /unlock"
   /\ ProjectExists(last'.data.projectId)
   /\ projects[last'.data.projectId].lockedById = last'.data.userId)
    => /\ AnsweredNext(200)
       /\ Unlocked(projects'[last'.data.projectId])
C38_HolderCanUnlock == [][C38_HolderUnlockStep]_vars


(***************************************************************************)
(* DELETE /projects/:id.  The permission rows are deleted first, in a call *)
(* of their own; project.delete is refused by the store while a            *)
(* ProjectVersion row references the project (ON DELETE RESTRICT), and the *)
(* Page rows go with the project (ON DELETE CASCADE).  A refused delete    *)
(* rejects the handler, which has no try block.                            *)
(***************************************************************************)
VersionsOf(projectId) == {v \in VersionIds : versions[v].projectId = projectId}

\* router.delete('/:id')
RestDeleteProject(userId, id) ==
  /\ last' = [ev |-> "DELETE /projects/:id", sock |-> 0,
              data |-> [userId |-> userId, projectId |-> id]]
  /\ UNCHANGED <<build, inflight, versions, clock, issued, sockets, activeUsers, rooms,
                 clientPages, membership, present, pageJoins>>
  /\ IF ~ProjectExists(id)
     THEN Reply(404, "Not found") /\ UNCHANGED <<projects, permissions, pages>>
     ELSE IF projects[id].ownerId # userId
     THEN Reply(403, "Forbidden") /\ UNCHANGED <<projects, permissions, pages>>
     ELSE /\ permissions' = permissions \ PermissionsOf(id)
          /\ IF VersionsOf(id) # {}
             THEN Unhandled /\ UNCHANGED <<projects, pages>>
             ELSE /\ projects' = [q \in DOMAIN projects \ {id} |-> projects[q]]
                  /\ pages' = SelectSeq(pages, LAMBDA row : row.projectId # id)
                  /\ Reply(204, Absent)

\* Project deletion (SpecDeleteProject): the owner of p1 grants permissions,
\* versions and pages of p1 are created, and p1 is deleted.
DeletedPageBodies ==
  [projectId : {ProjectId(1)}, name : {"Home"}, clientId : {"pg1"}, isDefault : {TRUE}]

NextDeleteProject ==
  \/ \E t \in Callers, v \in PermissionValues :
        RestUpsertPermission(UserId(1), ProjectId(1), t, v)
  \/ \E u \in Callers, b \in WriteVersionBodies : RestCreateVersion(u, ProjectId(1), b)
  \/ \E u \in Callers, b \in DeletedPageBodies : RestCreatePage(u, b)
  \/ \E u \in Callers, p \in RestProjects : RestDeleteProject(u, p)

SpecDeleteProject == InitRest /\ [][NextDeleteProject]_vars

\* C39: DELETE /projects/:id by the owner either removes the project with all
\* its permission rows, or leaves the project and its permission rows as they
\* were.  Refuted: with a version of the project in the store, the permission
\* rows are deleted and the project stays.
C39_DeleteStep ==
  (/\ last'.ev = "DELETE /projects/:id"
   /\ ProjectExists(last'.data.projectId)
   /\ projects[last'.data.projectId].ownerId = last'.data.userId)
    => \/ /\ last'.data.projectId \notin DOMAIN projects'
          /\ \A r \in permissions' : r.projectId # last'.data.projectId
       \/ UNCHANGED <<projects, permissions>>
C39_DeleteAllOrNothing == [][C39_DeleteStep]_vars


\* router.put('/:id'): an optional field of the body is a sequence, empty
\* when the field is undefined
Given(field) == Len(field) = 1
RestUpdatePage(userId, id, body) ==
  /\ RestPageStep("PUT /pages/:id", [userId |-> userId, id |-> id, body |-> body])
  /\ IF id \notin PageRowIds(pages)
     THEN Reply(404, "Página no encontrada") /\ pages' = pages
     ELSE LET cleared == IF Given(body.isDefault) /\ body.isDefault[1]
                         THEN ClearOtherDefaults(pages, pages[id].projectId, id)
                         ELSE pages
              row == [pages[id] EXCEPT
                        !.name = IF Given(body.name) THEN body.name[1] ELSE @,
                        !.isDefault = IF Given(body.isDefault) THEN body.isDefault[1] ELSE @]
          IN /\ pages' = [cleared EXCEPT ![id] = row]
             /\ Reply(200, row)

\* REST page rules (SpecRestPageRules): pages of p1 are created, updated,
\* soft-deleted and restored over REST.
PutBodies ==
  [name : {<< >>, <<"Inicio">>}, isDefault : {<< >>, <<TRUE>>, <<FALSE>>}]
RulePageBodies ==
  [projectId : {ProjectId(1)}, name : {"Home"}, clientId : RestPageIds,
   isDefault : BOOLEAN]

NextRestPageRules ==
  \/ \E b \in RulePageBodies : RestCreatePage(UserId(1), b)
  \/ \E id \in 1..(Len(pages) + 1), b \in PutBodies : RestUpdatePage(UserId(1), id, b)
  \/ \E id \in 1..(Len(pages) + 1) : RestDeletePage(id)
  \/ \E id \in 1..(Len(pages) + 1) : RestRestorePage(UserId(1), id)

SpecRestPageRules == InitRest /\ [][NextRestPageRules]_vars

\* C36: after any sequence of REST create, update, soft-delete and restore,
\* the live pages of a project have at most one default, and exactly one when
\* there is a live page.  Refuted: a first page created without isDefault
\* leaves no default, and the restore of a deleted default page leaves two.
C36_RestOneDefault ==
  \A p \in DOMAIN projects :
    /\ Cardinality(DefaultPages(pages, p)) <= 1
    /\ LivePages(pages, p) # {} => Cardinality(DefaultPages(pages, p)) = 1


(***************************************************************************)
(* Page write access (SpecPageAccess): connection 1 is the owner of p1,    *)
(* connection 2 the collaborator whose only permission row on p1 is        *)
(* 'read'; both emit page events for p1.                                   *)
(***************************************************************************)
ReaderHandshake ==
  [token |-> GoodToken(UserId(NumUsers)), projectId |-> ProjectId(1), linkToken |-> Absent]
AccessSockets == {1, 2}
AccessPayloads ==
  [projectId : {ProjectId(1)}, pageId : {"pg1", "pg2"}, pageName : {"Home"},
   html : {Absent}, isDefault : BOOLEAN]

NextPageAccess ==
  \/ Connect(1, OwnerHandshake)
  \/ Connect(2, ReaderHandshake)
  \/ \E s \in AccessSockets : JoinProject(s, [projectId |-> ProjectId(1)])
  \/ \E s \in AccessSockets, d \in AccessPayloads : PageAdd(s, d)
  \/ \E s \in AccessSockets, d \in AccessPayloads : PageRemove(s, d)
  \/ \E s \in AccessSockets, d \in AccessPayloads : PageUpdate(s, d)

SpecPageAccess == InitPages /\ [][NextPageAccess]_vars

\* the step handles a page write event of a connection whose user has no
\* write access to the project of the payload
WriteWithoutAccess ==
  /\ last'.ev \in {"page:add", "page:remove", "page:update"}
  /\ ProjectExists(last'.data.projectId)
  /\ ~canWrite(last'.data.projectId, sockets[last'.sock].user.id)

\* C35: a page:add, page:remove or page:update of a connection without write
\* access is answered with an error to that connection only and changes no
\* Page row.  Refuted: the handlers run with `hasAccess = true`; the read-only
\* collaborator's page:add creates the row and is relayed to the room.
C35_WriteStep ==
  WriteWithoutAccess
    => /\ pages' = pages
       /\ out' # {}
       /\ \A m \in out' : m.to = last'.sock /\ m.ev = "error"
C35_WriteNeedsAccess == [][C35_WriteStep]_vars


(***************************************************************************)
(* Connection gate (SpecGate): every kind of handshake, while the owner of *)
(* p1 grants and removes permission rows on it.                            *)
(***************************************************************************)
GateSockets == {1, 2}
GateHandshakes ==
  [token : {Absent, BadToken, GoodToken(UserId(1)), GoodToken(UserId(NumUsers))},
   projectId : {Absent, UnknownProject, ProjectId(1), ProjectId(NumProjects)},
   linkToken : {Absent}]

NextGate ==
  \/ \E s \in GateSockets, h \in GateHandshakes : Connect(s, h)
  \/ \E s \in GateSockets : UserJoin(s)
  \/ \E t \in Callers, v \in PermissionValues :
        RestUpsertPermission(UserId(1), ProjectId(1), t, v)
  \/ \E t \in Callers : RestDeletePermission(UserId(1), ProjectId(1), t)

SpecGate == InitRelay /\ [][NextGate]_vars

\* how often a call occurs among the calls of a handshake
Count(calls, call) == Cardinality({i \in 1..Len(calls) : calls[i] = call})
StoreLookups == {"project.findUnique", "projectPermission.findFirst"}
\* the user a handshake's token was signed for
Bearer(h) == CHOOSE u \in Users : h.token = GoodToken(u)
\* the user may read the project: owner, any permission row, or an open link
MayConnect(h) ==
  \/ projects[h.projectId].ownerId = Bearer(h)
  \/ \E r \in permissions : r.projectId = h.projectId /\ r.userId = Bearer(h)
  \/ projects[h.projectId].linkAccess # "none"

\* C32: a rejected handshake carries exactly one of the five reasons, by
\* precedence: no token, no project id, authentication failed, project not
\* found, forbidden.  Without a token or a project id nothing is verified or
\* looked up; the project is looked up only after the token verified; there
\* is at most one project lookup and one permission lookup.
C32_Reason ==
  (last.ev = "connect" /\ sockets[last.sock].state = "rejected") =>
    LET h == last.data
        reason == sockets[last.sock].error
        calls == GateCalls(h)
    IN /\ reason \in HandshakeErrors
       /\ reason = ErrNoToken <=> h.token = Absent
       /\ reason = ErrNoProjectId <=> (h.token # Absent /\ h.projectId = Absent)
       /\ reason = ErrAuth <=>
            (h.token # Absent /\ h.projectId # Absent /\ h.token \notin ValidTokens)
       /\ reason = ErrNotFound <=>
            (h.token \in ValidTokens /\ h.projectId # Absent
             /\ h.projectId \notin DOMAIN projects)
       /\ reason = ErrForbidden <=>
            (h.token \in ValidTokens /\ h.projectId \in DOMAIN projects)
       /\ (h.token = Absent \/ h.projectId = Absent) => calls = << >>
       /\ h.token \notin ValidTokens => \A c \in StoreLookups : Count(calls, c) = 0
       /\ \A c \in StoreLookups : Count(calls, c) <= 1
\* an attempt changes neither the store nor the roster
C32_AttemptStep ==
  last'.ev = "connect" =>
     UNCHANGED <<projects, permissions, pages, versions, activeUsers, rooms>>
C32_RejectionPrecedence == []C32_Reason /\ [][C32_AttemptStep]_vars

\* a forged token for a project that does not exist was refused as a failed
\* authentication, after a connection was refused as forbidden
C32_Witness ==
  /\ last.ev = "connect" /\ sockets[last.sock].error = ErrAuth
  /\ last.data.projectId = UnknownProject
  /\ \E s \in GateSockets : sockets[s].error = ErrForbidden

\* C33: with a verified token and an existing project, the connection is
\* established exactly when the user owns the project, holds a permission row
\* on it, or its linkAccess is not 'none'; the session of an established
\* connection carries the verified user and the requested project.  (The
\* store is the same before and after a connection attempt: C32.)
C33_Established ==
  (/\ last.ev = "connect"
   /\ last.data.token \in ValidTokens
   /\ last.data.projectId \in DOMAIN projects) =>
    LET h == last.data
        session == sockets[last.sock]
    IN /\ session.state = "established" <=> MayConnect(h)
       /\ session.state = "established" =>
            /\ session.user = UserPayload(Bearer(h))
            /\ session.projectId = h.projectId

\* a guest came in by the open link of a project, and a user without any
\* access to the private project was refused
C33_Witness ==
  /\ \E s \in SocketIds :
        /\ sockets[s].state = "established"
        /\ sockets[s].user.id = UserId(NumUsers)
        /\ sockets[s].projectId = ProjectId(NumProjects)
  /\ last.ev = "connect" /\ last.data.token \in ValidTokens
  /\ last.data.projectId = ProjectId(1)
  /\ sockets[last.sock].error = ErrForbidden


\* C37: every connection that emitted user-join and has since neither emitted
\* user-leave nor disconnected has its user in the roster of its project.
\* Refuted: the roster is keyed by user id alone, so the user-leave or the
\* disconnection of another connection of the same user, joined or not,
\* deletes the entry.
C37_JoinedConnectionsPresent ==
  \A s \in joined :
     /\ HasRoster(sockets[s].projectId)
     /\ sockets[s].user.id \in RosterIds(Roster(sockets[s].projectId))


(***************************************************************************)
(* Relayed identity (SpecIdentity): verified users connect, join and emit  *)
(* editor, cursor and chat events whose payload names another user.        *)
(***************************************************************************)
IdentityHandshakes ==
  [token : {GoodToken(UserId(1)), GoodToken(UserId(NumUsers))},
   projectId : {ProjectId(1), ProjectId(NumProjects)}, linkToken : {Absent}]
\* a payload that claims to come from somebody else
SpoofedPayloads ==
  [userId : {UserId(1), UserId(NumUsers)}, userName : {"somebody else"},
   message : {"hi"}]

NextIdentity ==
  \/ \E s \in GateSockets, h \in IdentityHandshakes : Connect(s, h)
  \/ \E s \in GateSockets : UserJoin(s)
  \/ \E s \in GateSockets : UserLeave(s)
  \/ \E s \in GateSockets : Disconnect(s)
  \/ \E s \in GateSockets : JoinProject(s, [projectId |-> ProjectId(NumProjects)])
  \/ \E s \in GateSockets, d \in SpoofedPayloads : EditorFullUpdate(s, d)
  \/ \E s \in GateSockets, d \in SpoofedPayloads : EditorChange(s, d)
  \/ \E s \in GateSockets, d \in SpoofedPayloads : CursorMove(s, d)
  \/ \E s \in GateSockets, d \in SpoofedPayloads : ChatMessage(s, d)

SpecIdentity == InitRelay /\ [][NextIdentity]_vars

RelayedEvents == {"editor:full-update", "editor:change", "cursor:move", "chat:message"}

\* C34: every relayed editor, cursor and chat event carries the id and name of
\* the user its connection authenticated as, whatever the payload says, and
\* the user and the project of a connection do not change after the handshake,
\* for as long as the connection lasts.
C34_SenderStep ==
  /\ last'.ev \in RelayedEvents =>
       \A m \in out' :
          /\ m.ev = last'.ev
          /\ m.data.userId = sockets[last'.sock].user.id
          /\ m.data.userName = sockets[last'.sock].user.name
  /\ last'.ev = "connect" /\ sockets'[last'.sock].state = "established" =>
       sockets'[last'.sock].user = UserPayload(Bearer(last'.data))
  /\ \A s \in GateSockets : (Established(s) /\ sockets'[s].state = "established") =>
       /\ sockets'[s].user = sockets[s].user
       /\ sockets'[s].projectId = sockets[s].projectId
C34_RelayedIdentity == [][C34_SenderStep]_vars

\* a chat message whose payload names another user was delivered to another
\* connection under the sender's own id
C34_Witness ==
  /\ last.ev = "chat:message"
  /\ \E m \in out :
        /\ m.to # last.sock
        /\ m.data.userId = sockets[last.sock].user.id
  /\ \E s \in GateSockets : Established(s) /\ sockets[s].user.id # sockets[last.sock].user.id


(***************************************************************************)
(* Page events of one connection (SpecPageOrder).  socket.io calls the     *)
(* listener of each incoming packet without awaiting the promise the       *)
(* previous listener returned: the handler of a later event runs while     *)
(* the handler of an earlier event of the same connection is suspended at  *)
(* a store call.  Connection 1, of the owner of p1, emits page events;     *)
(* Handler(1, 1) is the earlier event and Handler(1, 2) an update or a     *)
(* removal emitted while the earlier is still under way.  Connection 2     *)
(* has joined the page room of p1 and receives what is relayed.            *)
(***************************************************************************)
OrderPageIds == {"pg1", "pg2"}
OrderAdds ==
  [projectId : {ProjectId(1)}, pageId : OrderPageIds, pageName : {"Home"},
   html : {Absent}, isDefault : BOOLEAN]
OrderUpdates ==
  [projectId : {ProjectId(1)}, pageId : OrderPageIds, pageName : {"Home", "Shop"},
   html : {Absent}, isDefault : BOOLEAN]
Earlier(s) == Handler(s, 1)
Later(s) == Handler(s, 2)

NextPageOrder ==
  \/ \E s \in {1, 2} : Connect(s, OwnerHandshake)
  \/ JoinProject(2, [projectId |-> ProjectId(1)])
  \/ \E d \in OrderAdds : Later(1) \notin DOMAIN inflight /\ PageAddFind(Earlier(1), d)
  \/ \E d \in OrderUpdates :
       Later(1) \notin DOMAIN inflight /\ PageUpdateFind(Earlier(1), d)
  \/ \E d \in OrderAdds :
       Later(1) \notin DOMAIN inflight /\ PageRemoveFind(Earlier(1), d)
  \/ \E d \in OrderUpdates : Earlier(1) \in DOMAIN inflight /\ PageUpdateFind(Later(1), d)
  \/ \E d \in OrderAdds : Earlier(1) \in DOMAIN inflight /\ PageRemoveFind(Later(1), d)
  \/ \E n \in {1, 2} : PageAddCreate(Handler(1, n))
  \/ \E n \in {1, 2} : PageRemoveCount(Handler(1, n))
  \/ \E n \in {1, 2} : PageRemoveSoftDelete(Handler(1, n))
  \/ \E n \in {1, 2} : PageRemovePick(Handler(1, n))
  \/ \E n \in {1, 2} : PageRemoveSetDefault(Handler(1, n))
  \/ \E n \in {1, 2} : PageUpdateClear(Handler(1, n))
  \/ \E n \in {1, 2} : PageUpdateStore(Handler(1, n))

SpecPageOrder == InitPages /\ [][NextPageOrder]_vars

\* the suspended handler `held' has its write and its relay still to come:
\* an update that found its page, a removal past its count, an add whose
\* create the store will accept
WillRelay(held, pgs) ==
  \/ held.route = "page:update"
  \/ held.route = "page:remove" /\ held.at # "count"
  \/ held.route = "page:add"
       /\ ~CreateRefused(pgs, held.data.projectId, held.data.pageId)

\* the step belongs to the handler of the later of two page events of one
\* connection, and the handler of the earlier has yet to write and relay
LaterOvertakes ==
  /\ last'.ev \in {"page:add", "page:remove", "page:update"}
  /\ last'.data.handler = Later(last'.sock)
  /\ Earlier(last'.sock) \in DOMAIN inflight'
  /\ WillRelay(inflight'[Earlier(last'.sock)], pages')

\* C31: of two page events emitted in order by one connection, the handler
\* of the later neither changes a Page row nor relays to the room before
\* the handler of the earlier has written and relayed.  Refuted: the later
\* handler completes while the earlier is suspended at a store call.
C31_InOrderStep ==
  LaterOvertakes => pages' = pages /\ \A m \in out' : m.to = last'.sock
C31_InOrder == [][C31_InOrderStep]_vars

====
